---- MODULE Spec2Model ----
(***************************************************************************)
(* Verification model of the text-editor pipeline                          *)
(* (aenuguzocket/texteditor_pipeline).                                     *)
(*                                                                         *)
(* The repository is a set of scripts.  The variable `prog` says which     *)
(* entry point a behaviour runs:                                           *)
(*   "layered"   pipeline_v1/run_pipeline_layered.py  (clean_layers) and   *)
(*               pipeline_v1/run_pipeline_text_rendering.py                *)
(*               (composite_layers)                                        *)
(*   "removable" create_removable_mask of run_pipeline_layered.py          *)
(*   "refine"    pipeline_v1/refine_mask_by_semantics.py  (refine_mask)    *)
(*   "fonts"     pipeline_v2/font_normalizer_v2.py                         *)
(*   "resolve"   run_pipeline_pro.py: one region's font normalized         *)
(*   "loader"    pipeline_v4/rendering/google_fonts_runtime_loader.py      *)
(*   "refresh"   two concurrent runs inside get_font_path                  *)
(*   "render"    render_text_layer of run_pipeline_text_rendering.py       *)
(*   "pipeline"  pipeline_v4/run_pipeline_v4.py  (run_full_pipeline)       *)
(*   "assets"    a normalized font handed to get_font_path                 *)
(*   "filter"    pipeline_v2/filter_text_regions_after_inpaint.py          *)
(*   "redetect"  archive/filter_by_reduction.py                            *)
(*                                                                         *)
(* Rasters are functions over the pixel grid; a mask holds one byte per    *)
(* pixel, an image a tuple <<b, g, r, a>> per pixel (OpenCV channel order).*)
(* Python strings whose characters the code inspects (texts, font variant  *)
(* names) are sequences of one-character strings.                          *)
(***************************************************************************)
EXTENDS Integers, Sequences, FiniteSets, TLC

\* ------------------------------------------------------------------ bounds
\* Pixel grid of every layer raster and mask of the model.
W == 24
H == 24
\* Longest list of global regions / layers in a layered run.
MaxGlobal == 2
MaxLayers == 2
\* Longest region list a mask is built from; most runs of a mask builder
\* on one run directory.
MaxRegions == 2
MaxRuns == 2
\* Most font resolver calls of a behaviour.
MaxCalls == 3
MaxResolved == 1
MaxLoads == 2
NumRuns == 2
MaxTokens == 3
MaxListed == 3
ManyLayers == 11

VARIABLES
    prog,               \* which script this behaviour runs
    pc,                 \* position inside the script
    \* ---- run_pipeline_layered.py / run_pipeline_text_rendering.py
    layer_paths,        \* the layer files handed to clean_layers
    global_regions,     \* global_craft_result["text_regions"]
    gemini_results,     \* [{region_id, analysis}]
    orig_size,          \* (orig_h, orig_w) of the reference image
    li,                 \* index of the next layer of the for loop
    decisions,          \* the last layer whose detections were scanned, and
                        \* is_protected / is_removable of each of them
    layer_mask_pre,     \* layer_mask after the detection loop (line 222)
    layer_mask,         \* layer_mask used for erasing (line 247)
    cleaned_files,      \* z -> raster written by cv2.imwrite, or NoFile
    cleaned_paths,      \* return value 1 of clean_layers
    cleaning_report,    \* return value 2 of clean_layers
    base_img,           \* result of composite_layers
    \* ---- create_removable_mask / refine_mask
    regions,            \* the region list the mask is built from
    json_dims,          \* data["dimensions"] of final_result_pro.json
    text_mask_file,     \* pipeline_dir/text_mask.png
    text_mask_shape,    \* the (height, width) of the array text_mask.png holds
    backup_file,        \* pipeline_dir/text_mask_raw_craft.png
    mask_pre,           \* synthesized mask before dilation
    mask_out,           \* mask returned / saved
    runs,               \* masks saved by the runs so far, oldest first
    shapes,             \* the (height, width) of each of these masks
    \* ---- font_normalizer_v2.py
    catalogs,           \* the fonts_cache dicts a caller may pass
    limited_fonts,      \* module global LIMITED_WEIGHT_FONTS
    calls,              \* the calls made so far: arguments and result
    \* ---- google_fonts_runtime_loader.py
    cache_file,         \* GOOGLE_FONTS_CACHE: present or not, and its text
    font_dir,           \* the files of FONT_DIR: path and downloaded content
    bundled_fonts,      \* weights w with <project>/fonts/Roboto-<w>.ttf
    resolved,           \* (font_name, font_weight, path) of first successes
    loads,              \* the latest get_font_path call, if any
    procs,              \* concurrent runs inside get_font_path: where each
                        \* stands, and what it holds
    \* ---- render_text_layer
    report_data,        \* report_data["text_detection"]["regions"]
    canvas,             \* base_image.size against the original image's size
    font_face,          \* what get_font_path and Pillow give for the fonts
    text_lines,         \* per role group, the lines as clustered (line 185)
    draw_calls,         \* the draw.text calls made so far, in order
    \* ---- run_full_pipeline
    pipe,               \* the input path, the report and the files of the run
    events,             \* what the run has done to final_img, in order
    \* ---- filter_text_regions_after_inpaint.py
    filter_dir,         \* pipeline_dir: its files, and the threshold given
    original_regions,   \* data["regions"], as far as the loop has read it
    kept_regions,       \* the regions kept so far
    dropped_regions,    \* the regions dropped so far
    overlaps,           \* the overlap computed for each region read
    editable_json       \* final_result_editable.json

vars == <<prog, pc, layer_paths, global_regions, gemini_results, orig_size, li,
          decisions, layer_mask_pre, layer_mask, cleaned_files, cleaned_paths,
          cleaning_report, base_img, regions, json_dims, text_mask_file,
          text_mask_shape, backup_file, mask_pre, mask_out, runs, shapes,
          catalogs, limited_fonts, calls,
          cache_file, font_dir, bundled_fonts, resolved, loads, procs,
          report_data, canvas, font_face, text_lines, draw_calls, pipe, events,
          filter_dir, original_regions, kept_regions, dropped_regions, overlaps,
          editable_json>>

layered_vars == <<layer_paths, global_regions, gemini_results, orig_size, li,
          decisions, layer_mask_pre, layer_mask, cleaned_files, cleaned_paths,
          cleaning_report, base_img>>

mask_vars == <<regions, json_dims, text_mask_file, text_mask_shape, backup_file,
          mask_pre, mask_out, runs, shapes>>

font_vars == <<catalogs, limited_fonts, calls>>

asset_vars == <<cache_file, font_dir, bundled_fonts, resolved, loads>>

\* The variables of the scripts modelled after the mask builders and the
\* font normalizer.
render_vars == <<report_data, canvas, font_face, text_lines, draw_calls>>

run_vars == <<pipe, events>>

filter_vars == <<filter_dir, original_regions, kept_regions, dropped_regions, overlaps,
                editable_json>>

rest_vars == <<asset_vars, procs, render_vars, run_vars, filter_vars>>

\* ------------------------------------------------------- generic helpers
Min2(a, b) == IF a <= b THEN a ELSE b
Max2(a, b) == IF a >= b THEN a ELSE b
Abs(a) == IF a >= 0 THEN a ELSE -a
SetMin(S) == CHOOSE m \in S : \A n \in S : m <= n
SetMax(S) == CHOOSE m \in S : \A n \in S : m >= n
Range(s) == {s[i] : i \in 1..Len(s)}

\* A file that does not exist, an array that was not made (Python's None).
NoFile == <<>>
\* A key that a classifier result does not carry.
None == "None"

\* ------------------------------------------------------------ rasters
Pixels == (0..(W - 1)) \X (0..(H - 1))

\* np.zeros((height, width), dtype=np.uint8)
ZeroMask == [p \in Pixels |-> 0]

\* An array held in memory: the same raster, with every pixel computed once
\* (a raster expression is otherwise recomputed at each pixel read).
Stored(raster) == IF raster = ZeroMask THEN ZeroMask ELSE raster

\* Pixels of the image inside the closed rectangle [x0, x1] x [y0, y1].
RectPixels(x0, y0, x1, y1) ==
    {p \in Pixels : x0 <= p[1] /\ p[1] <= x1 /\ y0 <= p[2] /\ p[2] <= y1}

\* astype(np.int32) / np.array(..., np.int32) of a non-integral coordinate.
\* Coordinates are carried in halves (c2 = 2 * coordinate) so that a detector's
\* fractional vertex is representable; the cast truncates toward zero.
AsInt32(c2) == IF c2 >= 0 THEN c2 \div 2 ELSE -((-c2) \div 2)

\* The vertices of a polygon after astype(np.int32), and its edges: each
\* vertex joined to the next, the last to the first.
IntVertices(polygon) ==
    [i \in 1..Len(polygon) |-> <<AsInt32(polygon[i][1]), AsInt32(polygon[i][2])>>]
EdgesOf(pts) ==
    {<<pts[i], pts[(i % Len(pts)) + 1]>> : i \in 1..Len(pts)}

\* The pixels OpenCV's 8-connected line from a to b sets: the line is walked
\* from its left end along its longer axis, the other coordinate being the
\* nearest integer to the exact one, a half rounding towards the start
\* (the error term of cv::LineIterator).
LinePixels(a, b) ==
    LET from == IF b[1] < a[1] THEN b ELSE a
        to == IF b[1] < a[1] THEN a ELSE b
        dx == to[1] - from[1]
        dy == Abs(to[2] - from[2])
        sy == IF to[2] < from[2] THEN -1 ELSE 1
        nearest(i, minor, major) == (2 * i * minor + major - 1) \div (2 * major)
    IN  IF dx = 0 /\ dy = 0 THEN {from}
        ELSE IF dy > dx
        THEN {<<from[1] + nearest(i, dx, dy), from[2] + sy * i>> : i \in 0..dy}
        ELSE {<<from[1] + i, from[2] + sy * nearest(i, dy, dx)>> : i \in 0..dx}

\* Whether the point p lies on the segment from a to b.
OnSegment(p, a, b) ==
    /\ (b[1] - a[1]) * (p[2] - a[2]) = (b[2] - a[2]) * (p[1] - a[1])
    /\ Min2(a[1], b[1]) <= p[1] /\ p[1] <= Max2(a[1], b[1])
    /\ Min2(a[2], b[2]) <= p[2] /\ p[2] <= Max2(a[2], b[2])

\* Whether the ray from p to the right crosses the edge from a to b, whose
\* upper end counts and whose lower end does not.
RayCrosses(p, a, b) ==
    /\ (a[2] > p[2]) # (b[2] > p[2])
    /\ IF b[2] > a[2]
       THEN (p[1] - a[1]) * (b[2] - a[2]) < (p[2] - a[2]) * (b[1] - a[1])
       ELSE (p[1] - a[1]) * (b[2] - a[2]) > (p[2] - a[2]) * (b[1] - a[1])

\* cv2.fillPoly(mask, [poly], color): OpenCV draws every edge as a line and
\* fills the scanlines between the edges (even-odd rule), so a pixel gets
\* the colour when it is on a drawn edge or inside the polygon; what falls
\* outside the image is clipped.
FillPoly(mask, polygon, color) ==
    LET pts == IntVertices(polygon)
        xs == {pts[i][1] : i \in 1..Len(pts)}
        ys == {pts[i][2] : i \in 1..Len(pts)}
        edges == EdgesOf(pts)
        drawn == UNION {LinePixels(e[1], e[2]) : e \in edges}
        around == RectPixels(SetMin(xs), SetMin(ys), SetMax(xs), SetMax(ys))
        inside == {p \in around :
                      \/ p \in drawn
                      \/ \E e \in edges : OnSegment(p, e[1], e[2])
                      \/ Cardinality({e \in edges : RayCrosses(p, e[1], e[2])}) % 2 = 1}
    IN  [p \in Pixels |-> IF p \in inside THEN color ELSE mask[p]]

\* cv2.rectangle(mask, (x, y), (x+w, y+h), color, -1): filled, corners included.
Rectangle(mask, x, y, x2, y2, color) ==
    LET inside == RectPixels(Min2(x, x2), Min2(y, y2), Max2(x, x2), Max2(y, y2))
    IN  [p \in Pixels |-> IF p \in inside THEN color ELSE mask[p]]

\* The kernel of cv2.dilate: np.ones((5, 5)), anchored at its centre, so the
\* window reaches 2 pixels each way; pixels outside the image do not count
\* (OpenCV's default border for dilation).
Window(p) ==
    (Max2(0, p[1] - 2)..Min2(W - 1, p[1] + 2)) \X (Max2(0, p[2] - 2)..Min2(H - 1, p[2] + 2))

\* Variants of the morphological step, against which the mask properties are
\* tested: cv2.blur (the mean of the window) and cv2.erode (its minimum).
BlurOnce(mask) ==
    LET src == Stored(mask)
    IN  [p \in Pixels |->
            LET xs == Max2(0, p[1] - 2)..Min2(W - 1, p[1] + 2)
                ys == Max2(0, p[2] - 2)..Min2(H - 1, p[2] + 2)
                white == Cardinality({q \in xs \X ys : src[q] = 255})
            IN  (255 * white) \div (Cardinality(xs) * Cardinality(ys))]

ErodeOnce(mask) ==
    LET src == Stored(mask)
    IN  [p \in Pixels |-> SetMin({src[q] : q \in Window(p)})]

\* One iteration of cv2.dilate: every pixel becomes the maximum of its window.
DilateOnce(mask) ==
    LET src == Stored(mask)
    IN  [p \in Pixels |-> SetMax({src[q] : q \in Window(p)})]

\* cv2.dilate(mask, kernel, iterations=n)
RECURSIVE Dilate(_, _)
Dilate(mask, iterations) ==
    IF iterations = 0 THEN mask ELSE Dilate(DilateOnce(mask), iterations - 1)

\* cv2.cvtColor(img, cv2.COLOR_BGR2BGRA): an opaque alpha channel is appended.
BGR2BGRA(img) == [p \in Pixels |-> <<img[p][1], img[p][2], img[p][3], 255>>]

\* A variant of the erase that clears the whole pixel, colour included.
EraseAll(img, mask) ==
    [p \in Pixels |-> IF mask[p] = 255 THEN <<0, 0, 0, 0>> ELSE img[p]]

\* img[:, :, 3] = np.where(layer_mask == 255, 0, img[:, :, 3])
EraseAlpha(img, mask) ==
    [p \in Pixels |-> IF mask[p] = 255
                      THEN <<img[p][1], img[p][2], img[p][3], 0>>
                      ELSE img[p]]

\* Image.open(path).convert("RGBA") of a PNG that OpenCV wrote: the file
\* stores the channels of a BGR(A) array as RGB(A).
OpenRGBA(img) ==
    [p \in Pixels |-> <<img[p][3], img[p][2], img[p][1],
                        IF Len(img[p]) = 4 THEN img[p][4] ELSE 255>>]

\* Pillow's SHIFTFORDIV255(a) = ((a >> 8) + a) >> 8
ShiftForDiv255(a) == ((a \div 256) + a) \div 256

\* Image.alpha_composite(dst, src) for one pixel (Pillow's AlphaComposite.c,
\* 7 bits of extra precision); pixels are <<r, g, b, a>>.
CompositePixel(dst, src) ==
    IF src[4] = 0 THEN dst
    ELSE LET blend == dst[4] * (255 - src[4])
             outa255 == src[4] * 255 + blend
             coef1 == (src[4] * 255 * 255 * 128) \div outa255
             coef2 == 255 * 128 - coef1
             ch(i) == ShiftForDiv255(src[i] * coef1 + dst[i] * coef2 + 128 * 128) \div 128
         IN  <<ch(1), ch(2), ch(3), ShiftForDiv255(outa255 + 128)>>

AlphaComposite(dst, src) == [p \in Pixels |-> CompositePixel(dst[p], src[p])]

\* ------------------------------------------------------------ strings
Whitespace == {" ", "\t", "\n"}

RECURSIVE LStrip(_)
LStrip(s) == IF Len(s) > 0 /\ s[1] \in Whitespace THEN LStrip(Tail(s)) ELSE s

RECURSIVE RStrip(_)
RStrip(s) ==
    IF Len(s) > 0 /\ s[Len(s)] \in Whitespace THEN RStrip(SubSeq(s, 1, Len(s) - 1)) ELSE s

\* str.strip()
Strip(s) == RStrip(LStrip(s))

Digits == {"0", "1", "2", "3", "4", "5", "6", "7", "8", "9"}
DigitValue(c) ==
    CASE c = "0" -> 0 [] c = "1" -> 1 [] c = "2" -> 2 [] c = "3" -> 3 [] c = "4" -> 4
      [] c = "5" -> 5 [] c = "6" -> 6 [] c = "7" -> 7 [] c = "8" -> 8 [] c = "9" -> 9

UpperLetters == {"A", "B", "M", "P", "S", "L", "E", "R", "N", "D"}
LowerLetters == {"a", "b", "m", "p", "s", "l", "e", "r", "n", "d", "i", "t", "c", "g", "u"}

\* str.lower() on one character of the model's alphabet
LowerChar(c) ==
    CASE c = "A" -> "a" [] c = "B" -> "b" [] c = "M" -> "m" [] c = "P" -> "p"
      [] c = "S" -> "s" [] c = "L" -> "l" [] c = "E" -> "e" [] c = "R" -> "r"
      [] c = "N" -> "n" [] c = "D" -> "d" [] OTHER -> c

\* str.lower()
Lower(s) == [i \in 1..Len(s) |-> LowerChar(s[i])]

\* str.isdigit(): non-empty and all characters are digits
IsDigit(s) == Len(s) > 0 /\ \A i \in 1..Len(s) : s[i] \in Digits

\* str.isalnum(): non-empty and all characters are letters or digits
IsAlnum(s) ==
    Len(s) > 0 /\ \A i \in 1..Len(s) : s[i] \in Digits \cup UpperLetters \cup LowerLetters

\* int(s) of a digit string
RECURSIVE ParseInt(_)
ParseInt(s) ==
    IF Len(s) = 0 THEN 0
    ELSE 10 * ParseInt(SubSeq(s, 1, Len(s) - 1)) + DigitValue(s[Len(s)])

\* Role strings are compared as wholes; lower() and strip() of the role
\* spellings a classifier may return.
RoleLower(role) ==
    CASE role = "Logo" -> "logo"
      [] role = "LOGO " -> "logo "
      [] role = "Heading" -> "heading"
      [] OTHER -> role

RoleStrip(role) ==
    CASE role = "logo " -> "logo"
      [] role = "LOGO " -> "LOGO"
      [] OTHER -> role

\* =====================================================================
\* Python floats (IEEE 754 binary64, round to nearest, ties to even)
\* =====================================================================
\* The scripts compute scale factors, paddings and limits with Python
\* floats.  A natural number of any size is the sequence of its digits to
\* the base 2^14, lowest first, without leading zeros; a float is its sign,
\* its 53-bit significand m and its exponent e, the value being m * 2^e
\* (m = <<>> for zero).  The numbers of the scripts stay far from the
\* largest and the smallest float, so there is no infinity and no subnormal.
Binary64Format == [significand |-> 53, digit |-> 14]
Significand == Binary64Format.significand
LimbBits == Binary64Format.digit
Limb == 2 ^ LimbBits

FloatZero == [neg |-> FALSE, m |-> <<>>, e |-> 0]
FloatNeg(x) == IF x.m = <<>> THEN x ELSE [x EXCEPT !.neg = ~x.neg]

\* The lowest digit of a number and the digits above it; the digits below
\* the highest one.
Digit(a) == IF a = <<>> THEN 0 ELSE a[1]
Rest(a) == IF a = <<>> THEN <<>> ELSE Tail(a)
Front(a) == SubSeq(a, 1, Len(a) - 1)

\* The arithmetic of numbers and floats, one operation per case:
\*   trim      a without leading zeros
\*   of        the number of the int n
\*   int       the int of the number a
\*   add       a + b + n
\*   sub       a - b - n, for a >= b + n, before trimming
\*   cmp       -1, 0 or 1 as a is below, equal to or above b
\*   mulsmall  a * n + b for ints n and b below 2^16, before trimming
\*   divsmall  quotient q and remainder r of (b * Limb^Len(a) + a) / n, for
\*             ints b < n < 2^16, q before trimming
\*   mul       a * b
\*   shl, shr  a * 2^n, and the whole part of a / 2^n
\*   bitlen    the number of binary digits of a
\*   round     the float nearest to (-1)^b * a * 2^n (b a Boolean), ties to
\*             the even significand: through sized (a of n binary digits),
\*             nearest (the digits kept and whether the digits cut off
\*             round up) and carried (the significand may have grown by a
\*             digit)
\*   float     float(n) of an int n
\*   fmul      a * b of floats
\*   fadd      a + b of floats
\*   fdivint   a / n for a float a and an int n in 1..65535: the quotient of
\*             the significand is taken with twenty more binary digits and
\*             a last digit that tells whether anything was left, and then
\*             rounded once
\*   fcmp      -1, 0 or 1 as the float a is below, equal to or above b: by
\*             the signs, then the exponents, then the significands
\*   fint      int(a) of a float: towards zero
RECURSIVE Binary64(_, _, _, _)
Binary64(op, a, b, n) ==
    CASE op = "trim" ->
            IF a = <<>> \/ a[Len(a)] # 0 THEN a ELSE Binary64("trim", Front(a), b, n)
      [] op = "of" ->
            IF n = 0 THEN <<>> ELSE <<n % Limb>> \o Binary64("of", a, b, n \div Limb)
      [] op = "int" ->
            IF a = <<>> THEN 0 ELSE a[1] + Limb * Binary64("int", Tail(a), b, n)
      [] op = "add" ->
            IF a = <<>> /\ b = <<>> THEN Binary64("of", a, b, n)
            ELSE <<(Digit(a) + Digit(b) + n) % Limb>>
                    \o Binary64("add", Rest(a), Rest(b), (Digit(a) + Digit(b) + n) \div Limb)
      [] op = "sub" ->
            IF a = <<>> THEN <<>>
            ELSE <<(a[1] - Digit(b) - n) % Limb>>
                    \o Binary64("sub", Tail(a), Rest(b),
                                IF a[1] - Digit(b) - n < 0 THEN 1 ELSE 0)
      [] op = "cmp" ->
            IF Len(a) # Len(b) THEN (IF Len(a) < Len(b) THEN -1 ELSE 1)
            ELSE IF a = <<>> THEN 0
            ELSE IF a[Len(a)] # b[Len(b)]
            THEN (IF a[Len(a)] < b[Len(b)] THEN -1 ELSE 1)
            ELSE Binary64("cmp", Front(a), Front(b), n)
      [] op = "mulsmall" ->
            IF a = <<>> THEN Binary64("of", a, b, b)
            ELSE <<(a[1] * n + b) % Limb>>
                    \o Binary64("mulsmall", Tail(a), (a[1] * n + b) \div Limb, n)
      [] op = "divsmall" ->
            IF a = <<>> THEN [q |-> <<>>, r |-> b]
            ELSE LET low == Binary64("divsmall", Front(a),
                                     (b * Limb + a[Len(a)]) % n, n)
                 IN  [q |-> Append(low.q, (b * Limb + a[Len(a)]) \div n), r |-> low.r]
      [] op = "mul" ->
            IF a = <<>> \/ b = <<>> THEN <<>>
            ELSE Binary64("add",
                          Binary64("trim", Binary64("mulsmall", a, 0, b[1]), b, n),
                          Binary64("trim", <<0>> \o Binary64("mul", a, Tail(b), n), b, n),
                          0)
      [] op = "shl" ->
            IF a = <<>> THEN <<>>
            ELSE [i \in 1..(n \div LimbBits) |-> 0]
                    \o Binary64("trim",
                                Binary64("mulsmall", a, 0, 2 ^ (n % LimbBits)),
                                b, n)
      [] op = "shr" ->
            IF Len(a) <= n \div LimbBits THEN <<>>
            ELSE Binary64("trim",
                          Binary64("divsmall", SubSeq(a, (n \div LimbBits) + 1, Len(a)),
                                   0, 2 ^ (n % LimbBits)).q,
                          b, n)
      [] op = "bitlen" ->
            IF a = <<>> THEN 0
            ELSE LimbBits * (Len(a) - 1)
                    + (CHOOSE k \in 1..LimbBits : a[Len(a)] \div (2 ^ (k - 1)) = 1)
      [] op = "round" ->
            IF a = <<>> THEN FloatZero
            ELSE Binary64("sized", [big |-> a, neg |-> b, exp |-> n], b,
                          Binary64("bitlen", a, b, n))
      [] op = "sized" ->
            IF n <= Significand
            THEN [neg |-> a.neg, m |-> Binary64("shl", a.big, b, Significand - n),
                  e |-> a.exp - (Significand - n)]
            ELSE Binary64("nearest",
                          [big |-> a.big, neg |-> a.neg, exp |-> a.exp,
                           kept |-> Binary64("shr", a.big, b, n - Significand)],
                          b, n - Significand)
      [] op = "nearest" ->
            LET half == Binary64("cmp",
                                 Binary64("trim",
                                          Binary64("sub", a.big,
                                                   Binary64("shl", a.kept, b, n), 0),
                                          b, n),
                                 Binary64("shl", <<1>>, b, n - 1), 0)
            IN  Binary64("carried",
                         [a EXCEPT !.kept =
                             IF half = 1 \/ (half = 0 /\ a.kept[1] % 2 = 1)
                             THEN Binary64("trim", Binary64("add", a.kept, <<1>>, 0), b, n)
                             ELSE a.kept],
                         b, n)
      [] op = "carried" ->
            IF Binary64("bitlen", a.kept, b, n) > Significand
            THEN [neg |-> a.neg, m |-> Binary64("shr", a.kept, b, 1), e |-> a.exp + n + 1]
            ELSE [neg |-> a.neg, m |-> a.kept, e |-> a.exp + n]
      [] op = "float" ->
            Binary64("round", Binary64("of", a, b, IF n < 0 THEN 0 - n ELSE n), n < 0, 0)
      [] op = "fmul" ->
            Binary64("round", Binary64("mul", a.m, b.m, 0), a.neg # b.neg, a.e + b.e)
      [] op = "fadd" ->
            IF a.m = <<>> THEN b
            ELSE IF b.m = <<>> THEN a
            ELSE IF a.e < b.e THEN Binary64("fadd", b, a, n)
            ELSE Binary64("aligned", [a EXCEPT !.m = Binary64("shl", a.m, b, a.e - b.e)],
                          b, b.e)
      [] op = "aligned" ->
            IF a.neg = b.neg
            THEN Binary64("round", Binary64("add", a.m, b.m, 0), a.neg, n)
            ELSE IF Binary64("cmp", a.m, b.m, 0) = 0 THEN FloatZero
            ELSE IF Binary64("cmp", a.m, b.m, 0) = 1
            THEN Binary64("round", Binary64("trim", Binary64("sub", a.m, b.m, 0), b, n),
                          a.neg, n)
            ELSE Binary64("round", Binary64("trim", Binary64("sub", b.m, a.m, 0), b, n),
                          b.neg, n)
      [] op = "fdivint" ->
            LET parts == Binary64("divsmall", Binary64("shl", a.m, b, 20), 0, n)
            IN  Binary64("round",
                         Binary64("add",
                                  Binary64("trim",
                                           Binary64("mulsmall",
                                                    Binary64("trim", parts.q, b, n), 0, 2),
                                           b, n),
                                  <<>>, IF parts.r = 0 THEN 0 ELSE 1),
                         a.neg, a.e - 21)
      [] op = "fcmp" ->
            IF a.m = <<>> THEN (IF b.m = <<>> THEN 0 ELSE IF b.neg THEN 1 ELSE -1)
            ELSE IF b.m = <<>> THEN (IF a.neg THEN -1 ELSE 1)
            ELSE IF a.neg # b.neg THEN (IF a.neg THEN -1 ELSE 1)
            ELSE IF a.neg THEN Binary64("fcmp", FloatNeg(b), FloatNeg(a), n)
            ELSE IF a.e # b.e THEN (IF a.e < b.e THEN -1 ELSE 1)
            ELSE Binary64("cmp", a.m, b.m, 0)
      [] op = "fint" ->
            IF a.neg THEN 0 - Binary64("fint", FloatNeg(a), b, n)
            ELSE IF a.e >= 0 THEN Binary64("int", Binary64("shl", a.m, b, a.e), b, n)
            ELSE Binary64("int", Binary64("shr", a.m, b, 0 - a.e), b, n)

\* float(n) for an int n; x * y; x + y; x - y; x / d for an int d in
\* 1..65535; a / b for ints a and b (b in 1..65535; a decimal literal n/d of
\* the source text is the float nearest to it, which is the same float);
\* comparisons; int(x).
FloatOf(n) == Binary64("float", <<>>, <<>>, n)
FloatMul(x, y) == Binary64("fmul", x, y, 0)
FloatAdd(x, y) == Binary64("fadd", x, y, 0)
FloatSub(x, y) == Binary64("fadd", x, FloatNeg(y), 0)
FloatDivInt(x, d) == Binary64("fdivint", x, <<>>, d)
FloatDiv(a, b) == Binary64("fdivint", Binary64("float", <<>>, <<>>, a), <<>>, b)
FloatCmp(x, y) == Binary64("fcmp", x, y, 0)
FloatLess(x, y) == Binary64("fcmp", x, y, 0) = -1
FloatLeq(x, y) == Binary64("fcmp", x, y, 0) # 1
FloatMax(x, y) == IF Binary64("fcmp", x, y, 0) = -1 THEN y ELSE x
FloatMin(x, y) == IF Binary64("fcmp", y, x, 0) = -1 THEN y ELSE x
FloatInt(x) == Binary64("fint", x, <<>>, 0)

\* =====================================================================
\* pipeline_v1/run_pipeline_layered.py : clean_layers
\* =====================================================================

\* The roles of the priority rule (lines 200 and 209).
ProtectedRoles == {"product_text", "ui_element", "logo"}

\* rid in gemini_map
InGeminiMap(rid) == \E i \in 1..Len(gemini_results) : gemini_results[i].region_id = rid

\* gemini_map = {str(res["region_id"]): res["analysis"] ...}: a later result
\* for the same id replaces an earlier one.
GeminiMap(rid) ==
    LET hits == {i \in 1..Len(gemini_results) : gemini_results[i].region_id = rid}
    IN  gemini_results[SetMax(hits)].analysis

\* global_roles[rid]: "body" unless the classifier gave a role (lines 84-87).
GlobalRole(rid) ==
    IF ~InGeminiMap(rid) \/ GeminiMap(rid).role = None
    THEN "body"
    ELSE RoleStrip(RoleLower(GeminiMap(rid).role))

\* analysis.get("text", "").strip() with analysis = gemini_map.get(g_rid, {})
TextContent(rid) ==
    IF ~InGeminiMap(rid)
    THEN <<>>
    ELSE Strip(GeminiMap(rid).text)

\* ---------------------------------------------------- inputs of a layered run
BBox(x, y, width, height) == [x |-> x, y |-> y, width |-> width, height |-> height]

\* The detector's polygon of a box: its four corners, in halves of a pixel;
\* `frac` (0 or 1) adds half a pixel to the far corner.
BoxPolygon(b, frac) ==
    <<<<2 * b.x, 2 * b.y>>, <<2 * (b.x + b.width) + frac, 2 * b.y>>,
      <<2 * (b.x + b.width) + frac, 2 * (b.y + b.height) + frac>>,
      <<2 * b.x, 2 * (b.y + b.height) + frac>>>>

Detection(b, frac) == [bbox |-> b, polygon |-> BoxPolygon(b, frac)]

T_BRAND == <<"B", "R", "A", "N", "D">>
T_SALE == <<"S", "A", "L", "E">>
T_BLANK == <<" ">>

\* Global regions a run may have: [id, bbox, analysis]; Unclassified when the
\* classifier returned nothing for the region; role = None when the result
\* has no "role" key.
Analysis(role, text) == [present |-> TRUE, role |-> role, text |-> text]
Unclassified == [present |-> FALSE, role |-> None, text |-> <<>>]
GlobalPool ==
    {[id |-> 0, bbox |-> BBox(0, 0, 2, 2), analysis |-> Analysis("LOGO ", T_BRAND)],
     [id |-> 1, bbox |-> BBox(18, 18, 5, 5), analysis |-> Analysis("heading", T_SALE)],
     [id |-> 2, bbox |-> BBox(18, 18, 5, 5), analysis |-> Analysis("Heading", T_BLANK)],
     [id |-> 3, bbox |-> BBox(18, 18, 5, 5), analysis |-> Unclassified],
     [id |-> 4, bbox |-> BBox(18, 18, 5, 5), analysis |-> Analysis("product_text", T_SALE)]}

\* Local detections a layer result may hold.
DetA == Detection(BBox(10, 10, 6, 6), 0)
DetB == Detection(BBox(18, 18, 4, 4), 1)
DetC == Detection(BBox(1, 1, 3, 3), 0)
DetD == Detection(BBox(18, 0, 4, 2), 0)
DetE == Detection(BBox(1, 18, 3, 4), 1)

\* The pixels of a layer: ink where a detection lies, `ground` elsewhere.
Ink == <<10, 20, 30, 255>>
Clear == <<0, 0, 0, 0>>
Halo == <<10, 20, 30, 128>>
Paper == <<200, 150, 100, 255>>
LayerImage(dets, ground) ==
    LET box(d) == RectPixels(d.bbox.x, d.bbox.y, d.bbox.x + d.bbox.width,
                             d.bbox.y + d.bbox.height)
        rim(d) == RectPixels(d.bbox.x - 1, d.bbox.y - 1, d.bbox.x + d.bbox.width + 1,
                             d.bbox.y + d.bbox.height + 1)
    IN  [p \in Pixels |->
            IF \E k \in 1..Len(dets) : p \in box(dets[k]) THEN Ink
            ELSE IF ground = Clear /\ \E k \in 1..Len(dets) : p \in rim(dets[k]) THEN Halo
            ELSE ground]

\* A three-channel (BGR) file of the same picture.
DropAlpha(img) == [p \in Pixels |-> <<img[p][1], img[p][2], img[p][3]>>]

\* Layer files a run may be given.  exists: path.exists(); readable: whether
\* cv2.imread returns an array; raises: detector.detect raises on the layer;
\* text_regions: the text_regions of the layer result otherwise.
LayerKind(exists, readable, image, raises, text_regions) ==
    [exists |-> exists, readable |-> readable, image |-> image,
     raises |-> raises, text_regions |-> text_regions]
LayerPool ==
    {LayerKind(TRUE, TRUE, LayerImage(<<DetA, DetB>>, Clear), FALSE, <<DetA, DetB>>),
     LayerKind(TRUE, TRUE, LayerImage(<<DetC, DetD>>, Clear), FALSE, <<DetC, DetD>>),
     LayerKind(TRUE, TRUE, LayerImage(<<DetB>>, Paper), TRUE, <<>>),
     LayerKind(TRUE, TRUE, DropAlpha(LayerImage(<<DetE>>, Paper)), FALSE, <<DetE>>),
     LayerKind(FALSE, FALSE, NoFile, FALSE, <<>>),
     LayerKind(TRUE, FALSE, NoFile, FALSE, <<>>)}

\* The classifier results of a region list: one per classified region, in
\* list order.
ResultsFor(gs) ==
    LET classified == {i \in 1..Len(gs) : gs[i].analysis.present}
        nth(k) == CHOOSE i \in classified :
                     Cardinality({j \in classified : j < i}) = k - 1
    IN  [k \in 1..Cardinality(classified) |->
            [region_id |-> gs[nth(k)].id,
             analysis |-> [role |-> gs[nth(k)].analysis.role,
                           text |-> gs[nth(k)].analysis.text]]]

\* Sequences of at most n elements of S.
RECURSIVE SeqsUpTo(_, _)
SeqsUpTo(S, n) ==
    IF n = 0 THEN {<<>>}
    ELSE LET shorter == SeqsUpTo(S, n - 1)
         IN  shorter \cup {Append(q, e) : q \in {r \in shorter : Len(r) = n - 1},
                                          e \in S}

Distinct(q) == \A i, j \in 1..Len(q) : i # j => q[i] # q[j]

\* The reference image is as large as the layers or twice as large.
OrigSizes == {[w |-> W, h |-> H], [w |-> 2 * W, h |-> 2 * H]}

\* Lines 147-148, with the floats of the code: sx = w / orig_w
\* (sy = h / orig_h).
Scale(dim, orig) == FloatDiv(dim, orig)

\* Lines 172-175: gx = g_bbox["x"] * sx, and so gy, gw and gh.
Scaled(v, scale) == FloatMul(FloatOf(v), scale)

\* Lines 183-184: pad_x = 15 + (gw * 0.10) (pad_y of gh).
Pad(gw) == FloatAdd(FloatOf(15), FloatMul(gw, FloatDiv(1, 10)))

\* Lines 195-196 and 206-207: the padded bbox reaches from gx_pad to
\* gx_pad + gw_pad along an axis.
PaddedEnds(gx_pad, gw_pad) == [low |-> gx_pad, high |-> FloatAdd(gx_pad, gw_pad)]

\* Lines 186-189: gx_pad = gx - pad_x, gw_pad = gw + (2 * pad_x).
PaddedBy(gx, gw, pad_x) ==
    PaddedEnds(FloatSub(gx, pad_x), FloatAdd(gw, FloatMul(FloatOf(2), pad_x)))

\* Lines 172-189 along one axis, for a region at `pos` of extent `size`.
PaddedOf(gx, gw) == PaddedBy(gx, gw, Pad(gw))
PaddedAxis(pos, size, scale) == PaddedOf(Scaled(pos, scale), Scaled(size, scale))

\* Lines 147-148 and 172-189: the padded bbox of a global region on a layer
\* of w by h, from gx_pad to gx_pad + gw_pad and from gy_pad to
\* gy_pad + gh_pad.
PaddedCorners(xs, ys) == [x0 |-> xs.low, x1 |-> xs.high, y0 |-> ys.low, y1 |-> ys.high]
PaddedBox(g_bbox, w, h, orig) ==
    PaddedCorners(PaddedAxis(g_bbox.x, g_bbox.width, Scale(w, orig.w)),
                  PaddedAxis(g_bbox.y, g_bbox.height, Scale(h, orig.h)))

\* Lines 159-160: cx = x + width / 2 (cy = y + height / 2)
Center(pos, size) == FloatAdd(FloatOf(pos), FloatDivInt(FloatOf(size), 2))

\* Lines 159-160 and 193-196: the numbers of a local bbox the scan compares
\* with the padded bbox: its corners and its centre.
LocalBox(local_bbox) ==
    [x |-> FloatOf(local_bbox.x), y |-> FloatOf(local_bbox.y),
     x2 |-> FloatOf(local_bbox.x + local_bbox.width),
     y2 |-> FloatOf(local_bbox.y + local_bbox.height),
     cx |-> Center(local_bbox.x, local_bbox.width),
     cy |-> Center(local_bbox.y, local_bbox.height)]

\* The scan meets the same boxes in every state: the padded boxes and the
\* local boxes of the pools are worked out once and looked up, every other
\* box is worked out where it is met.
PaddedPool ==
    {[of |-> [g_bbox |-> g.bbox, w |-> W, h |-> H, orig |-> orig],
      box |-> PaddedBox(g.bbox, W, H, orig)] :
        g \in GlobalPool, orig \in OrigSizes}
LocalPool ==
    {[of |-> b, box |-> LocalBox(b)] :
        b \in UNION {{k.text_regions[i].bbox : i \in 1..Len(k.text_regions)} :
                        k \in LayerPool}}
Known(pool, of) == {known \in pool : known.of = of}
KnownOr(known, box) == IF known = {} THEN box ELSE (CHOOSE k \in known : TRUE).box
Padded(g_bbox, w, h) ==
    KnownOr(Known(PaddedPool, [g_bbox |-> g_bbox, w |-> w, h |-> h, orig |-> orig_size]),
            PaddedBox(g_bbox, w, h, orig_size))
Local(local_bbox) == KnownOr(Known(LocalPool, local_bbox), LocalBox(local_bbox))

\* Lines 193-198: the local bbox and the padded global bbox intersect.
Intersects(local_bbox, g_bbox, w, h) ==
    \E l \in {Local(local_bbox)}, g \in {Padded(g_bbox, w, h)} :
        LET x_left == FloatMax(l.x, g.x0)
            y_top == FloatMax(l.y, g.y0)
            x_right == FloatMin(l.x2, g.x1)
            y_bottom == FloatMin(l.y2, g.y1)
        IN  FloatLess(x_left, x_right) /\ FloatLess(y_top, y_bottom)

\* A variant of the removal check that leaves out the border.
CenterInsideStrict(local_bbox, g_bbox, w, h) ==
    \E l \in {Local(local_bbox)}, g \in {Padded(g_bbox, w, h)} :
        /\ FloatLess(g.x0, l.cx) /\ FloatLess(l.cx, g.x1)
        /\ FloatLess(g.y0, l.cy) /\ FloatLess(l.cy, g.y1)

\* Lines 206-207: the centre of the local bbox is inside the padded bbox,
\* borders included.
CenterInside(local_bbox, g_bbox, w, h) ==
    \E l \in {Local(local_bbox)}, g \in {Padded(g_bbox, w, h)} :
        /\ FloatLeq(g.x0, l.cx) /\ FloatLeq(l.cx, g.x1)
        /\ FloatLeq(g.y0, l.cy) /\ FloatLeq(l.cy, g.y1)

\* Lines 198-203: this global region protects the local detection.
ProtectionHit(local_bbox, g, w, h) ==
    Intersects(local_bbox, g.bbox, w, h) /\ GlobalRole(g.id) \in ProtectedRoles

\* Lines 206-213: this global region makes the local detection removable.
RemovalHit(local_bbox, g, w, h) ==
    /\ CenterInside(local_bbox, g.bbox, w, h)
    /\ GlobalRole(g.id) \notin ProtectedRoles
    /\ TextContent(g.id) # <<>>

\* A scan that also stops at the first global region that qualifies the
\* detection for removal.
RECURSIVE ScanGlobalFirstMatch(_, _, _, _, _)
ScanGlobalFirstMatch(local_bbox, w, h, gi, is_removable) ==
    IF gi > Len(global_regions) \/ is_removable
    THEN [is_protected |-> FALSE, is_removable |-> is_removable]
    ELSE IF ProtectionHit(local_bbox, global_regions[gi], w, h)
         THEN [is_protected |-> TRUE, is_removable |-> is_removable]
         ELSE ScanGlobalFirstMatch(local_bbox, w, h, gi + 1,
                  is_removable \/ RemovalHit(local_bbox, global_regions[gi], w, h))

\* Lines 162-214: the scan of one local detection over the global regions
\* from index gi on, in list order; `break` on protection, no break on removal.
RECURSIVE ScanGlobal(_, _, _, _, _)
ScanGlobal(local_bbox, w, h, gi, is_removable) ==
    IF gi > Len(global_regions)
    THEN [is_protected |-> FALSE, is_removable |-> is_removable]
    ELSE IF ProtectionHit(local_bbox, global_regions[gi], w, h)
         THEN [is_protected |-> TRUE, is_removable |-> is_removable]
         ELSE ScanGlobal(local_bbox, w, h, gi + 1,
                  is_removable \/ RemovalHit(local_bbox, global_regions[gi], w, h))

\* Lines 155-214 for every local detection of a layer result.
Decide(text_regions, w, h) ==
    [k \in 1..Len(text_regions) |-> ScanGlobal(text_regions[k].bbox, w, h, 1, FALSE)]

\* Lines 217-222: the detection is drawn and counted.
Erased(flags) == ~flags.is_protected /\ flags.is_removable

\* layer_mask after the first k local detections (lines 151, 217-221).
RECURSIVE BuildLayerMask(_, _, _)
BuildLayerMask(text_regions, flags, k) ==
    IF k = 0 THEN ZeroMask
    ELSE LET before == BuildLayerMask(text_regions, flags, k - 1)
         IN  IF Erased(flags[k])
             THEN FillPoly(before, text_regions[k].polygon, 255)
             ELSE before

\* removable_regions_count (lines 153, 222)
RemovableCount(flags) == Cardinality({k \in DOMAIN flags : Erased(flags[k])})

\* The variables of the scripts a behaviour does not run.
InitLayeredIdle ==
    /\ layer_paths = <<>> /\ global_regions = <<>> /\ gemini_results = <<>>
    /\ orig_size = [w |-> 1, h |-> 1] /\ li = 0
    /\ decisions = [layer |-> 0, flags |-> <<>>]
    /\ layer_mask_pre = NoFile /\ layer_mask = NoFile /\ cleaned_files = <<>>
    /\ cleaned_paths = <<>> /\ cleaning_report = <<>> /\ base_img = NoFile

InitMaskIdle ==
    /\ regions = <<>> /\ json_dims = [width |-> 0, height |-> 0]
    /\ text_mask_file = NoFile /\ text_mask_shape = NoFile
    /\ backup_file = NoFile /\ mask_pre = NoFile /\ mask_out = NoFile
    /\ runs = <<>> /\ shapes = <<>>

InitFontIdle ==
    /\ catalogs = <<>> /\ limited_fonts = <<>> /\ calls = <<>>

InitAssetIdle ==
    /\ cache_file = [present |-> FALSE, text |-> <<>>] /\ font_dir = {}
    /\ bundled_fonts = {} /\ resolved = {} /\ loads = <<>>

InitRenderIdle ==
    /\ report_data = <<>> /\ canvas = [scale_den |-> 1]
    /\ font_face = [measurable |-> FALSE, h_num |-> 1, h_den |-> 1,
                    adv_num |-> 1, adv_den |-> 1,
                    net |-> [api_key |-> FALSE, reply |-> 0, download_ok |-> FALSE]]
    /\ text_lines = <<>> /\ draw_calls = <<>>

InitRunIdle == pipe = <<>> /\ events = <<>>

InitFilterIdle ==
    /\ filter_dir = <<>> /\ original_regions = <<>> /\ kept_regions = <<>>
    /\ dropped_regions = <<>> /\ overlaps = <<>> /\ editable_json = NoFile

InitRestIdle == InitAssetIdle /\ procs = <<>> /\ InitRenderIdle /\ InitRunIdle /\ InitFilterIdle

\* A layered run: the arguments of clean_layers.  The layer at position i
\* of layer_paths is the file "<i-1>_layer_<i-1>.png" (z-index i - 1).
InitLayered ==
    /\ prog = "layered" /\ pc = "clean_layers"
    /\ \E gs \in {q \in SeqsUpTo(GlobalPool, MaxGlobal) : Distinct(q)} :
        /\ global_regions = [i \in 1..Len(gs) |->
              [id |-> gs[i].id, bbox |-> gs[i].bbox, polygon |-> BoxPolygon(gs[i].bbox, 0)]]
        /\ gemini_results = ResultsFor(gs)
    /\ \E ls \in SeqsUpTo(LayerPool, MaxLayers) :
        /\ Len(ls) >= 1
        /\ layer_paths = [i \in 1..Len(ls) |->
              [z |-> i - 1, exists |-> ls[i].exists, readable |-> ls[i].readable,
               image |-> ls[i].image, raises |-> ls[i].raises,
               text_regions |-> ls[i].text_regions]]
    /\ orig_size \in OrigSizes
    /\ li = 1
    /\ decisions = [layer |-> 0, flags |-> <<>>]
    /\ layer_mask_pre = NoFile
    /\ layer_mask = NoFile
    /\ cleaned_files = [i \in 1..Len(layer_paths) |-> NoFile]
    /\ cleaned_paths = <<>>
    /\ cleaning_report = <<>>
    /\ base_img = NoFile
    /\ InitMaskIdle /\ InitFontIdle /\ InitRestIdle

\* ------------------------------------------------------- clean_layers
InLoop == prog = "layered" /\ pc = "clean_layers" /\ li <= Len(layer_paths)

\* Lines 100-101: the layer file is missing; the loop goes on.
CleanLayerMissing ==
    /\ InLoop
    /\ ~layer_paths[li].exists
    /\ li' = li + 1
    /\ UNCHANGED <<rest_vars, prog, pc, layer_paths, global_regions, gemini_results, orig_size,
                   decisions, layer_mask_pre, layer_mask, cleaned_files, cleaned_paths,
                   cleaning_report, base_img, mask_vars, font_vars>>

\* Lines 129-136: detector.detect raised; the temp file is removed and the
\* loop goes on with the next layer.
CleanLayerDetectionFailed ==
    /\ InLoop
    /\ layer_paths[li].exists
    /\ layer_paths[li].raises
    /\ li' = li + 1
    /\ UNCHANGED <<rest_vars, prog, pc, layer_paths, global_regions, gemini_results, orig_size,
                   decisions, layer_mask_pre, layer_mask, cleaned_files, cleaned_paths,
                   cleaning_report, base_img, mask_vars, font_vars>>

\* Lines 143-229: the detections are scanned and the mask is built, then
\* cv2.imread returns None and the loop goes on.
CleanLayerUnreadable ==
    /\ InLoop
    /\ layer_paths[li].exists
    /\ ~layer_paths[li].raises
    /\ ~layer_paths[li].readable
    /\ \E flags \in {Decide(layer_paths[li].text_regions, W, H)} :
           /\ decisions' = [layer |-> li, flags |-> flags]
           /\ layer_mask_pre' = BuildLayerMask(layer_paths[li].text_regions, flags, Len(flags))
           /\ layer_mask' = layer_mask_pre'
    /\ li' = li + 1
    /\ UNCHANGED <<rest_vars, prog, pc, layer_paths, global_regions, gemini_results, orig_size,
                   cleaned_files, cleaned_paths, cleaning_report, base_img,
                   mask_vars, font_vars>>

\* Lines 143-264: one full iteration of the loop over layer_paths.
CleanLayer ==
    /\ InLoop
    /\ layer_paths[li].exists
    /\ ~layer_paths[li].raises
    /\ layer_paths[li].readable
    /\ \E flags \in {Decide(layer_paths[li].text_regions, W, H)} :
       LET layer == layer_paths[li]
           built == BuildLayerMask(layer.text_regions, flags, Len(flags))
           removable_regions_count == RemovableCount(flags)
           should_clean == removable_regions_count > 0
           img == IF Len(layer.image[<<0, 0>>]) = 3 THEN BGR2BGRA(layer.image)
                  ELSE layer.image
           dilated == IF should_clean THEN Dilate(built, 1) ELSE built
       IN  /\ decisions' = [layer |-> li, flags |-> flags]
           /\ layer_mask_pre' = built
           /\ layer_mask' = dilated
           /\ cleaned_files' = [cleaned_files EXCEPT ![li] =
                  IF should_clean THEN EraseAlpha(img, dilated) ELSE img]
           /\ cleaned_paths' = Append(cleaned_paths, layer.z)
           /\ cleaning_report' = Append(cleaning_report,
                  [original_layer |-> layer.z,
                   cleaned_layer |-> layer.z,
                   status |-> IF should_clean THEN "cleaned" ELSE "preserved",
                   action |-> IF should_clean THEN "erased_text" ELSE "none",
                   regions_removed |-> removable_regions_count])
    /\ li' = li + 1
    /\ UNCHANGED <<rest_vars, prog, pc, layer_paths, global_regions, gemini_results, orig_size,
                   base_img, mask_vars, font_vars>>

\* Line 266: clean_layers returns; the caller writes the report.
CleanLayersReturn ==
    /\ prog = "layered" /\ pc = "clean_layers" /\ li > Len(layer_paths)
    /\ pc' = "composite_layers"
    /\ UNCHANGED <<rest_vars, prog, layered_vars, mask_vars, font_vars>>

\* =====================================================================
\* pipeline_v1/run_pipeline_text_rendering.py : composite_layers
\* =====================================================================

\* Decimal spelling of a z-index, as character codes.
RECURSIVE DecChars(_)
DecChars(n) ==
    IF n < 10 THEN <<48 + n>> ELSE Append(DecChars(n \div 10), 48 + (n % 10))

\* The start of the file name "<z>_layer_<z>.png" as character codes, up to
\* the first "_" (code 95): two layer names differ inside it.
LayerName(z) == Append(DecChars(z), 95)

\* Python's string order: a < b
RECURSIVE StrLess(_, _)
StrLess(a, b) ==
    IF Len(b) = 0 THEN FALSE
    ELSE IF Len(a) = 0 THEN TRUE
    ELSE IF a[1] # b[1] THEN a[1] < b[1]
    ELSE StrLess(Tail(a), Tail(b))

\* Line 23: layers_info.sort(key=lambda x: x["original_layer"]), a stable sort.
RECURSIVE InsertLayer(_, _)
InsertLayer(sorted, e) ==
    IF Len(sorted) = 0 THEN <<e>>
    ELSE IF StrLess(LayerName(e.original_layer), LayerName(sorted[Len(sorted)].original_layer))
         THEN Append(InsertLayer(SubSeq(sorted, 1, Len(sorted) - 1), e), sorted[Len(sorted)])
         ELSE Append(sorted, e)

RECURSIVE SortLayers(_)
SortLayers(layers_info) ==
    IF Len(layers_info) = 0 THEN <<>>
    ELSE InsertLayer(SortLayers(SubSeq(layers_info, 1, Len(layers_info) - 1)),
                     layers_info[Len(layers_info)])

\* Lines 25-46: the loop over the first k files of the sorted layers_info;
\* files[i] is the raster stored under the i-th entry's file name, NoFile
\* when the path does not exist.  The result is base_img.
RECURSIVE Stack(_, _)
Stack(files, k) ==
    IF k = 0 THEN NoFile
    ELSE LET below == Stack(files, k - 1)
         IN  IF files[k] = NoFile THEN below
             ELSE IF below = NoFile THEN OpenRGBA(files[k])
             ELSE AlphaComposite(below, OpenRGBA(files[k]))

\* The cleaned file of a report entry.
CleanedFile(entry) == cleaned_files[entry.cleaned_layer + 1]

\* composite_layers(run_dir, report_data)
CompositeLayers ==
    /\ prog = "layered" /\ pc = "composite_layers"
    /\ LET layers_info == SortLayers(cleaning_report)
       IN  /\ cleaning_report' = layers_info
           /\ base_img' = Stack([k \in 1..Len(layers_info) |-> CleanedFile(layers_info[k])],
                                Len(layers_info))
    /\ pc' = "done"
    /\ UNCHANGED <<rest_vars, prog, layer_paths, global_regions, gemini_results, orig_size, li,
                   decisions, layer_mask_pre, layer_mask, cleaned_files, cleaned_paths,
                   mask_vars, font_vars>>

\* =====================================================================
\* pipeline_v1/run_pipeline_layered.py : create_removable_mask
\* =====================================================================

\* Lines 48-50: the role of a region, "body" when it has no result.
\* (The same expression as lines 84-86 of clean_layers.)
RemovableRole(rid) == GlobalRole(rid)

\* Lines 54-55: roles to KEEP.
KeepRoles == {"product_text", "logo"}

\* Lines 37-61: the mask after the first k regions of craft_result.
RECURSIVE RemovableMask(_, _)
RemovableMask(text_regions, k) ==
    IF k = 0 THEN ZeroMask
    ELSE LET before == RemovableMask(text_regions, k - 1)
         IN  IF RemovableRole(text_regions[k].id) \in KeepRoles
             THEN before
             ELSE FillPoly(before, text_regions[k].polygon, 255)

\* create_removable_mask(image_shape, craft_result, gemini_results)
CreateRemovableMask ==
    /\ prog = "removable" /\ pc = "ready"
    /\ Len(runs) < MaxRuns
    /\ mask_pre' = RemovableMask(global_regions, Len(global_regions))
    /\ mask_out' = mask_pre'
    /\ runs' = Append(runs, mask_out')
    /\ shapes' = Append(shapes, <<orig_size.h, orig_size.w>>)
    /\ UNCHANGED <<rest_vars, prog, pc, layered_vars, regions, json_dims, text_mask_file,
                   text_mask_shape, backup_file, font_vars>>

\* =====================================================================
\* pipeline_v1/refine_mask_by_semantics.py
\* =====================================================================

\* Lines 44-48
editable_roles ==
    {"heading", "headline", "subheading", "title", "body", "paragraph",
     "description", "text", "cta", "button", "usp", "caption"}

\* Lines 51-56
preserved_roles ==
    {"logo", "brand", "icon", "time", "date", "timestamp", "ui", "ui_element",
     "navigation", "product_text", "label"}

\* The tail of the time pattern after the digits: \s*(am|pm)$
EndsMeridiem(rest) == LStrip(rest) \in {<<"a", "m">>, <<"p", "m">>}

\* Lines 64-65: re.match(r'^\d{1,2}:\d{2}\s*(am|pm)?$|^\d{1,2}\s*(am|pm)$', s)
\* with n the number of leading digits the pattern takes (1 or 2).
MatchesTime(s) ==
    \E n \in {1, 2} :
        /\ Len(s) >= n
        /\ \A i \in 1..n : s[i] \in Digits
        /\ \/ /\ Len(s) >= n + 3
              /\ s[n + 1] = ":"
              /\ s[n + 2] \in Digits /\ s[n + 3] \in Digits
              /\ LET rest == SubSeq(s, n + 4, Len(s))
                 IN  LStrip(rest) = <<>> \/ EndsMeridiem(rest)
           \/ EndsMeridiem(SubSeq(s, n + 1, Len(s)))

\* A variant of is_safe_to_remove that decides on the role alone.
is_safe_by_role(region) ==
    LET content == region.text_content
        role == IF content.present THEN RoleLower(content.role) ELSE "unknown"
    IN  role \notin preserved_roles

\* is_safe_to_remove(region), lines 32-81.  A region whose text_content is
\* {} has the text "" and the role "unknown".
is_safe_to_remove(region) ==
    LET content == region.text_content
        text == IF content.present THEN Strip(content.text) ELSE <<>>
        role == IF content.present THEN RoleLower(content.role) ELSE "unknown"
    IN  IF role \in preserved_roles THEN FALSE
        ELSE IF MatchesTime(Lower(text)) THEN FALSE
        ELSE IF role \in editable_roles THEN TRUE
        ELSE IF Len(text) < 2 /\ ~IsAlnum(text) THEN FALSE
        ELSE TRUE

\* An array of the shape (height, width), as img.shape gives it, held in the
\* grid of the model: the pixels beyond its last row and column do not exist
\* and are carried as 0.
InArray(raster, shape) ==
    [p \in Pixels |-> IF p[1] < shape[2] /\ p[2] < shape[1] THEN raster[p] ELSE 0]

\* Lines 98-105: the (height, width) the run works with.  A key that
\* data["dimensions"] does not carry is held as 0 (dims.get gives None, and
\* line 103 tests `not width`, which None and 0 both satisfy); when either
\* is missing and text_mask.png exists, both are taken from the shape of the
\* array the file holds.
MaskShape ==
    IF (json_dims.width = 0 \/ json_dims.height = 0) /\ text_mask_file # NoFile
    THEN text_mask_shape
    ELSE <<json_dims.height, json_dims.width>>

\* A variant of the initial raster that starts from the mask file already in
\* the run directory.
ExistingMask == IF text_mask_file # NoFile THEN text_mask_file ELSE ZeroMask

\* Line 115: np.zeros((height, width), dtype=np.uint8)
BlankRefinedMask == InArray(ZeroMask, MaskShape)

\* Lines 122-144: the mask after the first k regions of the JSON; OpenCV
\* draws what falls inside the array.
RECURSIVE RefinedMask(_, _)
RefinedMask(rs, k) ==
    IF k = 0 THEN BlankRefinedMask
    ELSE LET before == RefinedMask(rs, k - 1)
             bbox == rs[k].bbox
         IN  IF ~is_safe_to_remove(rs[k]) THEN before
             ELSE IF rs[k].polygon # <<>>
                  THEN InArray(FillPoly(before, rs[k].polygon, 255), MaskShape)
                  ELSE InArray(Rectangle(before, bbox.x, bbox.y, bbox.x + bbox.width,
                                         bbox.y + bbox.height, 255), MaskShape)

\* Lines 155-156: cv2.dilate(refined_mask, kernel, iterations=2) on an array
\* of the given shape; every iteration takes the maximum over the part of
\* the window that lies inside the array.
RECURSIVE DilateArray(_, _, _)
DilateArray(mask, shape, iterations) ==
    IF iterations = 0 THEN mask
    ELSE DilateArray(InArray(DilateOnce(mask), shape), shape, iterations - 1)

\* pipeline_v2/run_pipeline_pro.py, lines 112-133: the raw mask the
\* detection stage leaves in text_mask.png: every bbox as the slice
\* [y:y2, x:x2], x and y clamped to 0 first and x2, y2 measured from the
\* clamped values.
RawCraftMask(rs) ==
    [p \in Pixels |->
        IF \E k \in 1..Len(rs) :
              /\ Max2(0, rs[k].bbox.x) <= p[1]
              /\ p[1] < Min2(W, Max2(0, rs[k].bbox.x) + rs[k].bbox.width)
              /\ Max2(0, rs[k].bbox.y) <= p[2]
              /\ p[2] < Min2(H, Max2(0, rs[k].bbox.y) + rs[k].bbox.height)
        THEN 255 ELSE 0]

\* Lines 98-109: neither the JSON nor a mask file gives both dimensions;
\* refine_mask prints an error and returns.
RefineMaskNoDimensions ==
    /\ prog = "refine" /\ pc = "ready"
    /\ MaskShape[1] = 0 \/ MaskShape[2] = 0
    /\ pc' = "done"
    /\ UNCHANGED <<rest_vars, prog, layered_vars, mask_vars, font_vars>>

\* refine_mask(pipeline_dir), lines 84-172, when the dimensions are known:
\* the mask is drawn and dilated in an array of these dimensions, the mask
\* file found is copied to text_mask_raw_craft.png unless that file exists,
\* and the mask is written over text_mask.png.
RefineMask ==
    /\ prog = "refine" /\ pc = "ready"
    /\ Len(runs) < MaxRuns
    /\ MaskShape[1] # 0 /\ MaskShape[2] # 0
    /\ mask_pre' = RefinedMask(regions, Len(regions))
    /\ mask_out' = DilateArray(mask_pre', MaskShape, 2)
    /\ backup_file' = IF text_mask_file # NoFile /\ backup_file = NoFile
                      THEN text_mask_file ELSE backup_file
    /\ text_mask_file' = mask_out'
    /\ text_mask_shape' = MaskShape
    /\ runs' = Append(runs, mask_out')
    /\ shapes' = Append(shapes, MaskShape)
    /\ UNCHANGED <<rest_vars, prog, pc, layered_vars, regions, json_dims, font_vars>>

\* ------------------------------------------------ inputs of the mask builders
T_TIME == <<"9", ":", "0", "0">>
T_DASH == <<"-">>

\* Regions a mask may be built from: a logo above two headings on one row
\* (one of them a clock time), an unclassified region, a region without a
\* polygon, a one-character mark of unknown role, and a label.
MaskPool ==
    {[id |-> 0, bbox |-> BBox(0, 0, 3, 1), frac |-> 0, has_polygon |-> TRUE,
      analysis |-> Analysis("Logo", T_BRAND)],
     [id |-> 1, bbox |-> BBox(1, 5, 12, 2), frac |-> 1, has_polygon |-> TRUE,
      analysis |-> Analysis("heading", T_SALE)],
     [id |-> 2, bbox |-> BBox(14, 5, 8, 2), frac |-> 0, has_polygon |-> TRUE,
      analysis |-> Analysis("Heading", T_TIME)],
     [id |-> 3, bbox |-> BBox(14, 12, 6, 3), frac |-> 0, has_polygon |-> TRUE,
      analysis |-> Unclassified],
     [id |-> 4, bbox |-> BBox(2, 16, 5, 3), frac |-> 0, has_polygon |-> FALSE,
      analysis |-> Analysis("heading", T_SALE)],
     [id |-> 5, bbox |-> BBox(10, 18, 2, 2), frac |-> 0, has_polygon |-> TRUE,
      analysis |-> Analysis("unknown", T_DASH)],
     [id |-> 6, bbox |-> BBox(16, 18, 4, 3), frac |-> 1, has_polygon |-> TRUE,
      analysis |-> Analysis("label", T_SALE)]}

\* The arguments of create_removable_mask: detector regions always carry a
\* polygon.
InitRemovable ==
    /\ prog = "removable" /\ pc = "ready"
    /\ \E gs \in {q \in SeqsUpTo({g \in MaskPool : g.has_polygon}, MaxRegions) : Distinct(q)} :
        /\ global_regions = [i \in 1..Len(gs) |->
              [id |-> gs[i].id, bbox |-> gs[i].bbox,
               polygon |-> BoxPolygon(gs[i].bbox, gs[i].frac)]]
        /\ gemini_results = ResultsFor(gs)
    /\ layer_paths = <<>> /\ orig_size = [w |-> W, h |-> H] /\ li = 0
    /\ decisions = [layer |-> 0, flags |-> <<>>]
    /\ layer_mask_pre = NoFile /\ layer_mask = NoFile /\ cleaned_files = <<>>
    /\ cleaned_paths = <<>> /\ cleaning_report = <<>> /\ base_img = NoFile
    /\ InitMaskIdle /\ InitFontIdle /\ InitRestIdle

\* The images a run directory may be about, as (height, width): one that
\* fills the grid and a wider-than-high one.
ImageShapes == {<<H, W>>, <<H - 14, W>>}

\* A run directory for refine_mask: final_result_pro.json as
\* run_pipeline_pro.py writes it for an image (the regions inside the image,
\* text_content = {} for an unclassified region), with "dimensions", with
\* its width alone or without it, and text_mask.png absent or holding the
\* raw detection mask, an array of the image's shape.
InitRefine ==
    /\ prog = "refine" /\ pc = "ready"
    /\ \E shape \in ImageShapes :
        /\ \E rs \in {q \in SeqsUpTo({g \in MaskPool :
                                          /\ g.bbox.x + g.bbox.width <= shape[2]
                                          /\ g.bbox.y + g.bbox.height <= shape[1]},
                                      MaxRegions) : Distinct(q)} :
              regions = [i \in 1..Len(rs) |->
                  [id |-> rs[i].id, bbox |-> rs[i].bbox,
                   polygon |-> IF rs[i].has_polygon
                               THEN BoxPolygon(rs[i].bbox, rs[i].frac) ELSE <<>>,
                   text_content |-> rs[i].analysis]]
        /\ json_dims \in {[width |-> shape[2], height |-> shape[1]],
                          [width |-> shape[2], height |-> 0],
                          [width |-> 0, height |-> 0]}
        /\ \/ text_mask_file = NoFile /\ text_mask_shape = NoFile
           \/ /\ text_mask_file = InArray(RawCraftMask(regions), shape)
              /\ text_mask_shape = shape
    /\ backup_file = NoFile /\ mask_pre = NoFile /\ mask_out = NoFile
    /\ runs = <<>> /\ shapes = <<>>
    /\ InitLayeredIdle /\ InitFontIdle /\ InitRestIdle

\* =====================================================================
\* pipeline_v2/font_normalizer_v2.py
\* =====================================================================
\* Font family names are whole strings.  Weight names and the variant keys
\* of a family's "files" are inspected character by character and are
\* sequences of one-character strings.

\* Lines 16-35
WEIGHT_NAME_TO_NUMERIC ==
    <<[key |-> <<"t", "h", "i", "n">>, value |-> 100],
      [key |-> <<"h", "a", "i", "r", "l", "i", "n", "e">>, value |-> 100],
      [key |-> <<"e", "x", "t", "r", "a", "l", "i", "g", "h", "t">>, value |-> 200],
      [key |-> <<"e", "x", "t", "r", "a", "-", "l", "i", "g", "h", "t">>, value |-> 200],
      [key |-> <<"u", "l", "t", "r", "a", "l", "i", "g", "h", "t">>, value |-> 200],
      [key |-> <<"l", "i", "g", "h", "t">>, value |-> 300],
      [key |-> <<"r", "e", "g", "u", "l", "a", "r">>, value |-> 400],
      [key |-> <<"n", "o", "r", "m", "a", "l">>, value |-> 400],
      [key |-> <<"m", "e", "d", "i", "u", "m">>, value |-> 500],
      [key |-> <<"s", "e", "m", "i", "b", "o", "l", "d">>, value |-> 600],
      [key |-> <<"s", "e", "m", "i", "-", "b", "o", "l", "d">>, value |-> 600],
      [key |-> <<"d", "e", "m", "i", "b", "o", "l", "d">>, value |-> 600],
      [key |-> <<"b", "o", "l", "d">>, value |-> 700],
      [key |-> <<"e", "x", "t", "r", "a", "b", "o", "l", "d">>, value |-> 800],
      [key |-> <<"e", "x", "t", "r", "a", "-", "b", "o", "l", "d">>, value |-> 800],
      [key |-> <<"u", "l", "t", "r", "a", "b", "o", "l", "d">>, value |-> 800],
      [key |-> <<"b", "l", "a", "c", "k">>, value |-> 900],
      [key |-> <<"h", "e", "a", "v", "y">>, value |-> 900]>>

\* Lines 39-57: the similar families of a family, in table order
\* (SIMILAR_FONTS_SEED.get(primary_font, [])).
SIMILAR_FONTS_SEED(primary_font) ==
    CASE primary_font = "Bebas Neue" -> <<"Oswald", "Anton", "Teko", "Fjalla One">>
      [] primary_font = "Anton" -> <<"Bebas Neue", "Oswald", "Black Ops One">>
      [] primary_font = "Oswald" -> <<"Bebas Neue", "Anton", "Teko">>
      [] primary_font = "Roboto" -> <<"Open Sans", "Lato", "Montserrat", "Inter">>
      [] primary_font = "Open Sans" -> <<"Roboto", "Lato", "Source Sans Pro">>
      [] primary_font = "Lato" -> <<"Roboto", "Open Sans", "Nunito">>
      [] primary_font = "Montserrat" -> <<"Poppins", "Raleway", "Roboto">>
      [] primary_font = "Poppins" -> <<"Montserrat", "Inter", "Nunito Sans">>
      [] primary_font = "Inter" -> <<"Roboto", "Poppins", "Open Sans">>
      [] primary_font = "Playfair Display" -> <<"Libre Baskerville", "Lora", "Merriweather">>
      [] primary_font = "Merriweather" -> <<"Lora", "Playfair Display", "PT Serif">>
      [] primary_font = "Lora" -> <<"Merriweather", "Playfair Display", "Libre Baskerville">>
      [] OTHER -> <<>>

\* Lines 60-67
LIMITED_WEIGHT_FONTS ==
    <<[name |-> "Bebas Neue", weights |-> <<400>>],
      [name |-> "Anton", weights |-> <<400>>],
      [name |-> "Black Ops One", weights |-> <<400>>],
      [name |-> "Fjalla One", weights |-> <<400>>],
      [name |-> "Bangers", weights |-> <<400>>],
      [name |-> "Lobster", weights |-> <<400>>]>>

\* The font family names of the model in the order Python compares
\* strings (line 119 sorts candidates on the name).
FontNames ==
    <<"Anton", "Bangers", "Bebas Neue", "Comfortaa", "Lato", "Lora", "Oswald",
      "Playfair Display", "Roboto", "Teko", "Unlisted Grotesk">>

NameRank(name) == CHOOSE i \in 1..Len(FontNames) : FontNames[i] = name

\* sub in s
Contains(s, sub) ==
    \E i \in 1..(Len(s) - Len(sub) + 1) : SubSeq(s, i, i + Len(sub) - 1) = sub

\* s.replace(sub, ""): every occurrence removed, scanning left to right
RECURSIVE Remove(_, _)
Remove(s, sub) ==
    IF Len(s) < Len(sub) THEN s
    ELSE IF SubSeq(s, 1, Len(sub)) = sub
         THEN Remove(SubSeq(s, Len(sub) + 1, Len(s)), sub)
         ELSE <<s[1]>> \o Remove(Tail(s), sub)

V_regular == <<"r", "e", "g", "u", "l", "a", "r">>
V_italic == <<"i", "t", "a", "l", "i", "c">>

\* name in fonts_cache / fonts_cache[name]; a catalog lists its families in
\* the order of the JSON file.
InCache(name, fonts_cache) == \E i \in 1..Len(fonts_cache) : fonts_cache[i].name = name
CacheEntry(name, fonts_cache) ==
    fonts_cache[CHOOSE i \in 1..Len(fonts_cache) : fonts_cache[i].name = name]

\* Lines 97-105: the weights of a family's variants, in the order of "files".
RECURSIVE CategoryScanWeights(_)
CategoryScanWeights(files) ==
    IF Len(files) = 0 THEN <<>>
    ELSE LET variant == files[Len(files)]
             before == CategoryScanWeights(SubSeq(files, 1, Len(files) - 1))
         IN  IF variant = V_regular THEN Append(before, 400)
             ELSE IF IsDigit(variant) THEN Append(before, ParseInt(variant))
             ELSE IF Contains(variant, V_italic) /\ IsDigit(Remove(variant, V_italic))
                  THEN Append(before, ParseInt(Remove(variant, V_italic)))
             ELSE before

\* Lines 148-160: the same scan in get_available_weights, with the variant
\* "italic" skipped first.
RECURSIVE VariantWeights(_)
VariantWeights(files) ==
    IF Len(files) = 0 THEN <<>>
    ELSE LET variant == files[Len(files)]
             before == VariantWeights(SubSeq(files, 1, Len(files) - 1))
         IN  IF variant = V_regular THEN Append(before, 400)
             ELSE IF variant = V_italic THEN before
             ELSE IF IsDigit(variant) THEN Append(before, ParseInt(variant))
             ELSE IF Contains(variant, V_italic) /\ IsDigit(Remove(variant, V_italic))
                  THEN Append(before, ParseInt(Remove(variant, V_italic)))
             ELSE before

\* sorted(set(weights))
RECURSIVE Sorted(_)
Sorted(S) == IF S = {} THEN <<>> ELSE <<SetMin(S)>> \o Sorted(S \ {SetMin(S)})

\* min(available, key=lambda x: abs(x - target)): the first of the closest.
MinByDistance(available, target) ==
    LET best == SetMin({Abs(available[i] - target) : i \in 1..Len(available)})
    IN  available[SetMin({i \in 1..Len(available) : Abs(available[i] - target) = best})]

\* ---- the lists of a call
\* What a call can reach: the module's dict LIMITED_WEIGHT_FONTS with its
\* value lists as they are when the call starts, the dict passed as
\* fonts_cache, and the lists the call has made so far.  A Python list is
\* held by reference, so a list is named by where it lives: two names of one
\* list read and change the same list.
Memory(fonts_cache) ==
    [limited |-> limited_fonts, fonts_cache |-> fonts_cache, made |-> <<>>]
ModuleList(i) == [of |-> "LIMITED_WEIGHT_FONTS", at |-> i]
MadeList(n) == [of |-> "call", at |-> n]

\* The items of a list, and the memory after the list got other items.
ListAt(memory, list) ==
    IF list.of = "LIMITED_WEIGHT_FONTS" THEN memory.limited[list.at].weights
    ELSE memory.made[list.at]
ListSet(memory, list, items) ==
    IF list.of = "LIMITED_WEIGHT_FONTS"
    THEN [memory EXCEPT !.limited[list.at].weights = items]
    ELSE [memory EXCEPT !.made[list.at] = items]

\* A list display or comprehension ([], [400], sorted(...)): a new list.
NewList(memory, items) ==
    [memory |-> [memory EXCEPT !.made = Append(@, items)],
     list |-> MadeList(Len(memory.made) + 1)]

\* list.append(item), and the appends of a loop in their order.
ListAppend(memory, list, item) == ListSet(memory, list, Append(ListAt(memory, list), item))
RECURSIVE ListAppendAll(_, _, _)
ListAppendAll(memory, list, items) ==
    IF Len(items) = 0 THEN memory
    ELSE ListAppend(ListAppendAll(memory, list, SubSeq(items, 1, Len(items) - 1)),
                    list, items[Len(items)])

\* Whether LIMITED_WEIGHT_FONTS has the key, and where.
IsLimited(font_name, memory) ==
    \E i \in 1..Len(memory.limited) : memory.limited[i].name = font_name
LimitedAt(font_name, memory) ==
    CHOOSE i \in 1..Len(memory.limited) : memory.limited[i].name = font_name

\* A variant of get_available_weights that, for a family of
\* LIMITED_WEIGHT_FONTS the catalog lists too, adds the catalog's weights to
\* the list it answers with.
get_available_weights_merged(font_name, memory) ==
    IF IsLimited(font_name, memory)
    THEN LET list == ModuleList(LimitedAt(font_name, memory))
             files == IF InCache(font_name, memory.fonts_cache)
                      THEN CacheEntry(font_name, memory.fonts_cache).files ELSE <<>>
         IN  [memory |-> ListAppendAll(memory, list, VariantWeights(files)), list |-> list]
    ELSE IF ~InCache(font_name, memory.fonts_cache) THEN NewList(memory, <<400>>)
    ELSE LET weights == NewList(memory, <<>>)
             scanned == ListAppendAll(weights.memory, weights.list,
                            VariantWeights(CacheEntry(font_name, memory.fonts_cache).files))
             items == ListAt(scanned, weights.list)
         IN  IF Len(items) > 0 THEN NewList(scanned, Sorted(Range(items)))
             ELSE NewList(scanned, <<400>>)

\* get_available_weights(font_name, fonts_cache), lines 137-162.  The answer
\* is a list: for a family of LIMITED_WEIGHT_FONTS the dict's own list (line
\* 140), for a family the catalog does not list a new [400], else a new
\* list made from `weights`, the list of line 148 that the loop appends to.
get_available_weights(font_name, memory) ==
    IF IsLimited(font_name, memory)
    THEN [memory |-> memory, list |-> ModuleList(LimitedAt(font_name, memory))]
    ELSE IF ~InCache(font_name, memory.fonts_cache) THEN NewList(memory, <<400>>)
    ELSE LET weights == NewList(memory, <<>>)
             scanned == ListAppendAll(weights.memory, weights.list,
                            VariantWeights(CacheEntry(font_name, memory.fonts_cache).files))
             items == ListAt(scanned, weights.list)
         IN  IF Len(items) > 0 THEN NewList(scanned, Sorted(Range(items)))
             ELSE NewList(scanned, <<400>>)

\* A variant of find_closest_weight that answers with the family's first
\* weight whenever the target itself is not offered.
find_first_weight(target, available) ==
    IF Len(available) = 0 THEN 400
    ELSE IF target \in Range(available) THEN target
    ELSE available[1]

\* find_closest_weight(target, available), lines 165-171
find_closest_weight(target, available) ==
    IF Len(available) = 0 THEN 400
    ELSE IF target \in Range(available) THEN target
    ELSE MinByDistance(available, target)

\* Line 119: sorted by (diff, name).
RECURSIVE SortCandidates(_)
SortCandidates(candidates) ==
    IF candidates = {} THEN <<>>
    ELSE LET first == CHOOSE c \in candidates :
                          \A d \in candidates :
                              \/ c.diff < d.diff
                              \/ c.diff = d.diff /\ NameRank(c.name) <= NameRank(d.name)
         IN  <<first>> \o SortCandidates(candidates \ {first})

\* candidates.sort(key=lambda x: (x[2], x[0])): the list is sorted in place.
ListSort(memory, list) ==
    ListSet(memory, list, SortCandidates(Range(ListAt(memory, list))))

\* Lines 85-116: the loop over fonts_cache.items() from its k-th entry on.
\* For every other family of the source category a list available_weights
\* is made and appended to; a family whose closest weight is within 200 of
\* the target is appended to `candidates`.
RECURSIVE CategoryScan(_, _, _, _, _)
CategoryScan(k, font_name, target_weight, candidates, memory) ==
    IF k > Len(memory.fonts_cache) THEN memory
    ELSE LET other == memory.fonts_cache[k]
             source_font == CacheEntry(font_name, memory.fonts_cache)
             source_category == IF source_font.category = None THEN "sans-serif"
                                ELSE source_font.category
             \* Lines 107-116 with the list of line 95 and the memory after the
             \* appends of lines 97-105.
             Judged(available_weights, scanned) ==
                 LET items == ListAt(scanned, available_weights)
                     closest == MinByDistance(items, target_weight)
                     diff == Abs(closest - target_weight)
                 IN  IF Len(items) = 0 \/ diff > 200 THEN scanned
                     ELSE ListAppend(scanned, candidates,
                                     [name |-> other.name, weight |-> closest, diff |-> diff])
             Listed(available_weights) ==
                 Judged(available_weights.list,
                        ListAppendAll(available_weights.memory, available_weights.list,
                                      CategoryScanWeights(other.files)))
             after == IF other.name = font_name \/ other.category # source_category
                      THEN memory
                      ELSE Listed(NewList(memory, <<>>))
         IN  CHOOSE last \in {CategoryScan(k + 1, font_name, target_weight, candidates, next) :
                              next \in {after}} : TRUE

\* find_similar_fonts_by_category(font_name, target_weight, fonts_cache),
\* lines 70-122: a new list of at most five (name, weight) pairs.
find_similar_fonts_by_category(font_name, target_weight, memory) ==
    IF ~InCache(font_name, memory.fonts_cache) THEN NewList(memory, <<>>)
    ELSE LET \* Line 122 with the list `candidates` and the memory after the
             \* sort of line 119.
             FirstFive(candidates, sorted) ==
                 NewList(sorted,
                         [k \in 1..Min2(5, Len(ListAt(sorted, candidates))) |->
                             <<ListAt(sorted, candidates)[k].name,
                               ListAt(sorted, candidates)[k].weight>>])
             Scanned(candidates) ==
                 FirstFive(candidates.list,
                           ListSort(CategoryScan(1, font_name, target_weight, candidates.list,
                                                 candidates.memory),
                                    candidates.list))
         IN  Scanned(NewList(memory, <<>>))

\* Lines 190-194: the numeric weight of the input, a name or a number.
TargetOfInput(weight_input) ==
    IF weight_input.is_str
    THEN LET weight_key == Remove(Lower(weight_input.str), <<" ">>)
             hits == {i \in 1..Len(WEIGHT_NAME_TO_NUMERIC) :
                         WEIGHT_NAME_TO_NUMERIC[i].key = weight_key}
         IN  IF hits = {} THEN 400 ELSE WEIGHT_NAME_TO_NUMERIC[SetMin(hits)].value
    ELSE weight_input.int

\* Lines 197-199: max(100, min(900, w)), then round(w / 100) * 100 with
\* Python's rounding of a half to the even neighbour.
ClampAndRound(w) ==
    LET clamped == Max2(100, Min2(900, w))
        q == clamped \div 100
        r == clamped % 100
    IN  IF r < 50 THEN q * 100
        ELSE IF r > 50 THEN (q + 1) * 100
        ELSE IF q % 2 = 0 THEN q * 100 ELSE (q + 1) * 100

\* A variant of the seed loop that walks the seed list from its last entry
\* to its first.
RECURSIVE SeedScanFromEnd(_, _, _, _, _)
SeedScanFromEnd(similar, k, target_weight, memory, best) ==
    IF k > Len(similar)
    THEN [exact |-> FALSE, font |-> None, best |-> best, memory |-> memory]
    ELSE LET sim_font == similar[Len(similar) + 1 - k]
         IN  IF ~InCache(sim_font, memory.fonts_cache)
             THEN SeedScanFromEnd(similar, k + 1, target_weight, memory, best)
             ELSE LET Judged(got) ==
                          LET sim_weights == ListAt(got.memory, got.list)
                              closest == find_closest_weight(target_weight, sim_weights)
                              diff == Abs(closest - target_weight)
                          IN  IF target_weight \in Range(sim_weights)
                              THEN [exact |-> TRUE, font |-> sim_font, best |-> best,
                                    memory |-> got.memory]
                              ELSE IF ~best.found \/ diff < best.diff
                                   THEN SeedScanFromEnd(similar, k + 1, target_weight,
                                                        got.memory,
                                                        [found |-> TRUE, font |-> sim_font,
                                                         weight |-> closest, diff |-> diff])
                                   ELSE SeedScanFromEnd(similar, k + 1, target_weight,
                                                        got.memory, best)
                  IN  Judged(get_available_weights(sim_font, memory))

\* Lines 228-242: the loop over the seed families from position k on, with
\* the best inexact family so far.
RECURSIVE SeedScan(_, _, _, _, _)
SeedScan(similar, k, target_weight, memory, best) ==
    IF k > Len(similar)
    THEN [exact |-> FALSE, font |-> None, best |-> best, memory |-> memory]
    ELSE IF ~InCache(similar[k], memory.fonts_cache)
         THEN SeedScan(similar, k + 1, target_weight, memory, best)
    ELSE LET \* Lines 231-242 with what get_available_weights answered.
             Judged(got) ==
                 LET sim_weights == ListAt(got.memory, got.list)
                     closest == find_closest_weight(target_weight, sim_weights)
                     diff == Abs(closest - target_weight)
                 IN  IF target_weight \in Range(sim_weights)
                     THEN [exact |-> TRUE, font |-> similar[k], best |-> best,
                           memory |-> got.memory]
                     ELSE IF ~best.found \/ diff < best.diff
                          THEN SeedScan(similar, k + 1, target_weight, got.memory,
                                        [found |-> TRUE, font |-> similar[k],
                                         weight |-> closest, diff |-> diff])
                          ELSE SeedScan(similar, k + 1, target_weight, got.memory, best)
         IN  Judged(get_available_weights(similar[k], memory))

\* What a call hands back: the memory it leaves and the pair (font, weight).
Answer(memory, font, weight) == [memory |-> memory, value |-> <<font, weight>>]

\* normalize_font_and_weight(primary_font, fallback_font, weight_input,
\* fonts_cache), lines 174-260, with the dict fonts_cache in `memory`.
\* primary_weights, fallback_weights and sim_weights name the lists that
\* get_available_weights answered with.
normalize_font_and_weight(primary_font, fallback_font, weight_input, memory) ==
    LET use_fallback == fallback_font # "" /\ InCache(fallback_font, memory.fonts_cache)
        \* Lines 202-260 with the target weight and the answer of line 202.
        Resolve(target_weight, primary) ==
            LET primary_weights == ListAt(primary.memory, primary.list)
                closest_primary == find_closest_weight(target_weight, primary_weights)
                primary_diff == Abs(closest_primary - target_weight)
                \* Lines 251-260 with the answer of line 250.
                Step7(dynamic) ==
                    LET dynamic_candidates == ListAt(dynamic.memory, dynamic.list)
                    IN  IF /\ Len(dynamic_candidates) > 0
                           /\ Abs(dynamic_candidates[1][2] - target_weight) < primary_diff
                        THEN Answer(dynamic.memory, dynamic_candidates[1][1],
                                    dynamic_candidates[1][2])
                        ELSE Answer(dynamic.memory, primary_font, closest_primary)
                \* Lines 245-260 with the outcome of the loop of line 228.
                Step6(seed) ==
                    IF seed.exact THEN Answer(seed.memory, seed.font, target_weight)
                    ELSE IF seed.best.found /\ seed.best.diff < primary_diff
                         THEN Answer(seed.memory, seed.best.font, seed.best.weight)
                    ELSE Step7(find_similar_fonts_by_category(primary_font, target_weight,
                                                              seed.memory))
                \* Lines 223-260 with the memory the steps before left.
                Step5(before) ==
                    Step6(SeedScan(SIMILAR_FONTS_SEED(primary_font), 1, target_weight, before,
                                   [found |-> FALSE, font |-> None, weight |-> 0, diff |-> 0]))
                \* Lines 215-260 with the answer of line 214.
                Step3(fallback) ==
                    LET fallback_weights == ListAt(fallback.memory, fallback.list)
                        closest_fallback == find_closest_weight(target_weight, fallback_weights)
                    IN  IF target_weight \in Range(fallback_weights)
                        THEN Answer(fallback.memory, fallback_font, target_weight)
                        ELSE IF Abs(closest_fallback - target_weight) < primary_diff
                             THEN Answer(fallback.memory, fallback_font, closest_fallback)
                        ELSE Step5(fallback.memory)
            IN  IF target_weight \in Range(primary_weights)
                THEN Answer(primary.memory, primary_font, target_weight)
                ELSE IF primary_diff <= 100
                     THEN Answer(primary.memory, primary_font, closest_primary)
                ELSE IF use_fallback
                     THEN Step3(get_available_weights(fallback_font, primary.memory))
                ELSE Step5(primary.memory)
    IN  Resolve(ClampAndRound(TargetOfInput(weight_input)),
                get_available_weights(primary_font, memory))

\* ------------------------------------------------ inputs of the font resolver
V_100 == <<"1", "0", "0">>
V_200 == <<"2", "0", "0">>
V_300 == <<"3", "0", "0">>
V_500 == <<"5", "0", "0">>
V_600 == <<"6", "0", "0">>
V_700 == <<"7", "0", "0">>
V_800 == <<"8", "0", "0">>
V_900 == <<"9", "0", "0">>

Family(name, category, files) == [name |-> name, category |-> category, files |-> files]

\* Two snapshots of google_fonts_full_cache.json: a current one, and an older,
\* smaller one that lists families and variants in another order.
CatalogA ==
    <<Family("Bebas Neue", "display", <<V_regular>>),
      Family("Oswald", "sans-serif", <<V_200, V_300, V_regular, V_500, V_600, V_700>>),
      Family("Anton", "sans-serif", <<V_regular>>),
      Family("Teko", "sans-serif", <<V_300, V_regular, V_500, V_600, V_700>>),
      Family("Bangers", "display", <<V_regular>>),
      Family("Comfortaa", "display", <<V_300, V_regular, V_500, V_600, V_700>>),
      Family("Roboto", "sans-serif",
             <<V_100, V_100 \o V_italic, V_300, V_regular, V_italic, V_500, V_700,
               V_700 \o V_italic, V_900>>),
      Family("Lato", "sans-serif", <<V_100, V_300, V_regular, V_italic, V_700, V_900>>),
      Family("Playfair Display", "serif",
             <<V_regular, V_500, V_600, V_700, V_800, V_900, V_900 \o V_italic>>),
      Family("Lora", "serif", <<V_regular, V_500, V_600, V_700>>)>>

CatalogB ==
    <<Family("Lato", "sans-serif", <<V_regular, V_italic>>),
      Family("Roboto", "sans-serif", <<V_900, V_700, V_regular, V_300>>),
      Family("Oswald", None, <<V_regular, V_700>>),
      Family("Bebas Neue", "display", <<V_regular>>),
      Family("Comfortaa", "display", <<V_700, V_300>>)>>

\* A catalog file whose families list their variants heaviest first.
CatalogC ==
    <<Family("Teko", "sans-serif", <<V_700>>),
      Family("Oswald", "sans-serif", <<V_600, V_regular>>),
      Family("Lora", "serif", <<V_regular, V_700 \o V_italic>>)>>

WeightName(str) == [is_str |-> TRUE, str |-> str, int |-> 0]
WeightNumber(int) == [is_str |-> FALSE, str |-> <<>>, int |-> int]

\* The calls a caller makes: a family with many weights or a single-weight
\* display family, with or without a fallback family, a weight by name or
\* by an out-of-range number, and either catalog.
FontRequests ==
    [primary_font : {"Lato", "Bebas Neue", "Bangers"},
     fallback_font : {"", "Oswald"},
     weight_input : {WeightName(<<"B", "o", "l", "d">>), WeightNumber(950), WeightNumber(600)},
     cache : {1, 2}]

InitFonts ==
    /\ prog = "fonts" /\ pc = "ready"
    /\ catalogs = <<CatalogA, CatalogB>>
    /\ limited_fonts = LIMITED_WEIGHT_FONTS
    /\ calls = <<>>
    /\ InitLayeredIdle /\ InitMaskIdle /\ InitRestIdle

\* One call normalize_font_and_weight(primary, fallback, weight, fonts_cache)
\* with one of the caller's catalogs.  The call starts with the module's
\* lists and the caller's dict as they are, and leaves them as its appends
\* and its sort made them; the lists it made are dropped when it returns.
NormalizeFontAndWeight ==
    /\ prog = "fonts" /\ pc = "ready"
    /\ Len(calls) < MaxCalls
    /\ \E req \in FontRequests :
       \E returned \in {normalize_font_and_weight(req.primary_font, req.fallback_font,
                             req.weight_input, Memory(catalogs[req.cache]))} :
          /\ calls' = Append(calls,
                [primary_font |-> req.primary_font, fallback_font |-> req.fallback_font,
                 weight_input |-> req.weight_input, cache |-> req.cache,
                 snapshot |-> catalogs[req.cache],
                 result |-> returned.value, lists |-> Len(returned.memory.made)])
          /\ limited_fonts' = returned.memory.limited
          /\ catalogs' = [catalogs EXCEPT ![req.cache] = returned.memory.fonts_cache]
    /\ UNCHANGED <<rest_vars, prog, pc, layered_vars, mask_vars>>

\* =====================================================================
\* Properties of clean_layers and composite_layers
\* =====================================================================

\* The layer whose detections were scanned last, and its local detections.
Scanned == decisions.layer > 0
ScannedRegions == layer_paths[decisions.layer].text_regions

\* Some global region with a protected role has a padded bbox that the
\* local detection's bbox intersects (wherever it stands in the list).
OverlapsProtected(local_region) ==
    \E i \in 1..Len(global_regions) :
        ProtectionHit(local_region.bbox, global_regions[i], W, H)

\* Some global region qualifies the detection for removal.
CenterInRemovable(local_region) ==
    \E i \in 1..Len(global_regions) :
        RemovalHit(local_region.bbox, global_regions[i], W, H)

\* The pixels cv2.fillPoly colours for a detection's polygon.
PolygonPixels(local_region) ==
    {p \in Pixels : FillPoly(ZeroMask, local_region.polygon, 255)[p] = 255}

\* The report entry of the layer at position i of layer_paths, if any.
EntriesOf(i) ==
    {j \in 1..Len(cleaning_report) : cleaning_report[j].original_layer = layer_paths[i].z}

\* C1: a local detection whose bbox intersects the padded bbox of some global
\* region with role product_text, ui_element or logo is flagged protected,
\* whatever the order of the global region list; the pre-dilation layer mask
\* is white exactly on the polygons of the detections that overlap no
\* protected region and have their centre in a removable one, and exactly
\* those are counted as removed.
C1_ProtectionWins ==
    Scanned =>
        LET drawn == {k \in 1..Len(ScannedRegions) :
                        /\ ~OverlapsProtected(ScannedRegions[k])
                        /\ CenterInRemovable(ScannedRegions[k])}
        IN  /\ \A k \in 1..Len(ScannedRegions) :
                  OverlapsProtected(ScannedRegions[k]) =>
                      /\ decisions.flags[k].is_protected
                      /\ ~Erased(decisions.flags[k])
            /\ \A p \in Pixels :
                  layer_mask_pre[p] = 255 <=>
                      \E k \in drawn : p \in PolygonPixels(ScannedRegions[k])
            /\ \A j \in EntriesOf(decisions.layer) :
                  cleaning_report[j].regions_removed = Cardinality(drawn)

\* C1 witness: a scanned detection is protected by a global region that
\* comes after a region that had already qualified it for removal.
C1_Witness ==
    /\ Scanned
    /\ \E k \in 1..Len(ScannedRegions) : \E i, j \in 1..Len(global_regions) :
          /\ i < j
          /\ RemovalHit(ScannedRegions[k].bbox, global_regions[i], W, H)
          /\ ProtectionHit(ScannedRegions[k].bbox, global_regions[j], W, H)
          /\ decisions.flags[k].is_protected
          /\ decisions.flags[k].is_removable
          /\ EntriesOf(decisions.layer) # {}

\* The layer file as cv2.imread returns it, with an alpha channel ensured.
OriginalBGRA(layer) ==
    IF Len(layer.image[<<0, 0>>]) = 3 THEN BGR2BGRA(layer.image) ELSE layer.image

\* C2 (as claimed): the cleaned raster of the layer with z-index 0 equals the
\* original layer 0, and its report entry says preserved with zero regions
\* removed.
C2_Layer0Untouched ==
    \A i \in 1..Len(layer_paths) :
        (layer_paths[i].z = 0 /\ cleaned_files[i] # NoFile) =>
            /\ cleaned_files[i] = OriginalBGRA(layer_paths[i])
            /\ \A j \in EntriesOf(i) :
                  /\ cleaning_report[j].status = "preserved"
                  /\ cleaning_report[j].regions_removed = 0

\* C2 witness: clean_layers has written layer 0 with a pixel made
\* transparent and reports it cleaned.
C2_Witness ==
    \E i \in 1..Len(cleaned_files) :
        /\ layer_paths[i].z = 0 /\ cleaned_files[i] # NoFile
        /\ \E p \in Pixels :
              /\ OriginalBGRA(layer_paths[i])[p][4] = 255
              /\ cleaned_files[i][p][4] = 0
        /\ \E j \in EntriesOf(i) :
              /\ cleaning_report[j].status = "cleaned"
              /\ cleaning_report[j].regions_removed > 0

\* C3 (as claimed): once the loop is over, a layer on which detection raised
\* has exactly one report entry, and it says preserved.
C3_FailedLayerReported ==
    pc # "clean_layers" =>
        \A i \in 1..Len(layer_paths) :
            (layer_paths[i].exists /\ layer_paths[i].raises) =>
                /\ Cardinality(EntriesOf(i)) = 1
                /\ \A j \in EntriesOf(i) : cleaning_report[j].status = "preserved"

\* C3 witness: the loop is over, a later layer was processed, and the layer
\* on which detection raised has no report entry and no cleaned file.
C3_Witness ==
    /\ pc # "clean_layers"
    /\ \E i, k \in 1..Len(layer_paths) :
          /\ i < k
          /\ layer_paths[i].exists /\ layer_paths[i].raises
          /\ EntriesOf(i) = {} /\ cleaned_files[i] = NoFile
          /\ EntriesOf(k) # {}

\* Alpha-compositing the unmodified original layers that can be opened, in
\* the order composite_layers uses.
PlainComposite ==
    LET usable == SortLayers([i \in 1..Len(layer_paths) |->
                      [original_layer |-> layer_paths[i].z,
                       cleaned_layer |-> layer_paths[i].z]])
        files == [k \in 1..Len(usable) |->
                      IF layer_paths[usable[k].original_layer + 1].readable
                      THEN layer_paths[usable[k].original_layer + 1].image
                      ELSE NoFile]
    IN  Stack(files, Len(files))

AllKeep ==
    \A i \in 1..Len(global_regions) : GlobalRole(global_regions[i].id) \in ProtectedRoles

\* C4 (as claimed): when every global region has a protected role, no layer
\* is erased and composite_layers returns the plain composite of the
\* original layers.
C4_AllKeepRoundTrip ==
    (pc = "done" /\ AllKeep) =>
        /\ \A j \in 1..Len(cleaning_report) : cleaning_report[j].status = "preserved"
        /\ base_img = PlainComposite

\* C4 witness: every global region is protected, nothing was erased, and
\* the composite differs from the plain composite because a layer on which
\* detection raised is missing from it.
C4_Witness ==
    /\ pc = "done" /\ AllKeep /\ Len(global_regions) > 0
    /\ \A j \in 1..Len(cleaning_report) : cleaning_report[j].status = "preserved"
    /\ base_img # PlainComposite
    /\ \E i \in 1..Len(layer_paths) :
          layer_paths[i].exists /\ layer_paths[i].raises /\ EntriesOf(i) = {}

\* The centre of the detection lies on the border of the padded bbox of g.
OnPaddedBorder(local_bbox, g_bbox) ==
    LET l == Local(local_bbox)
        g == Padded(g_bbox, W, H)
    IN  \/ (l.cx \in {g.x0, g.x1} /\ FloatLeq(g.y0, l.cy) /\ FloatLeq(l.cy, g.y1))
        \/ (l.cy \in {g.y0, g.y1} /\ FloatLeq(g.x0, l.cx) /\ FloatLeq(l.cx, g.x1))

\* C9: a detection whose centre lies exactly on the border of the padded bbox
\* of a global region with a non-protected role and non-empty text is
\* removable; unless a protected region overlaps it, its polygon is in the
\* layer mask.
C9_BoundaryInclusive ==
    Scanned =>
        \A k \in 1..Len(ScannedRegions) : \A i \in 1..Len(global_regions) :
            ( /\ OnPaddedBorder(ScannedRegions[k].bbox, global_regions[i].bbox)
              /\ GlobalRole(global_regions[i].id) \notin ProtectedRoles
              /\ TextContent(global_regions[i].id) # <<>>
              /\ ~OverlapsProtected(ScannedRegions[k]) )
            => /\ decisions.flags[k].is_removable
               /\ \A p \in PolygonPixels(ScannedRegions[k]) : layer_mask_pre[p] = 255

\* C9 witness: a detection is erased although its centre is inside no padded
\* removable region other than on a border.
C9_Witness ==
    /\ Scanned
    /\ \E k \in 1..Len(ScannedRegions) :
          /\ Erased(decisions.flags[k])
          /\ \E i \in 1..Len(global_regions) :
                OnPaddedBorder(ScannedRegions[k].bbox, global_regions[i].bbox)
          /\ \A i \in 1..Len(global_regions) :
                RemovalHit(ScannedRegions[k].bbox, global_regions[i], W, H) =>
                    OnPaddedBorder(ScannedRegions[k].bbox, global_regions[i].bbox)
          /\ layer_mask_pre[<<ScannedRegions[k].bbox.x, ScannedRegions[k].bbox.y>>] = 255

\* =====================================================================
\* Properties of the mask builders
\* =====================================================================

\* The pixels a region's shape covers: from the smallest to the largest
\* vertex of its polygon, or the closed rectangle (x, y)-(x+w, y+h) when
\* the region has no polygon.
ShapePixels(region) ==
    IF region.polygon # <<>>
    THEN {p \in Pixels :
            /\ \E i \in 1..4 : AsInt32(region.polygon[i][1]) <= p[1]
            /\ \E i \in 1..4 : AsInt32(region.polygon[i][1]) >= p[1]
            /\ \E i \in 1..4 : AsInt32(region.polygon[i][2]) <= p[2]
            /\ \E i \in 1..4 : AsInt32(region.polygon[i][2]) >= p[2]}
    ELSE {p \in Pixels :
            /\ region.bbox.x <= p[1] /\ p[1] <= region.bbox.x + region.bbox.width
            /\ region.bbox.y <= p[2] /\ p[2] <= region.bbox.y + region.bbox.height}

\* The region list the running mask builder reads.
MaskRegions == IF prog = "removable" THEN global_regions ELSE regions

\* The role the running mask builder reads for a region.
MaskRole(region) ==
    IF prog = "removable" THEN RemovableRole(region.id)
    ELSE IF region.text_content.present THEN RoleLower(region.text_content.role)
    ELSE "unknown"

\* The KEEP set of the running mask builder.
MaskKeep == IF prog = "removable" THEN KeepRoles ELSE preserved_roles

\* The regions of refine_mask that are drawn: role outside the preserved
\* set, text not a clock time, and either an editable role or a text that
\* has two characters or is alphanumeric.
RefineDraws(region) ==
    LET text == IF region.text_content.present
                THEN Strip(region.text_content.text) ELSE <<>>
    IN  /\ MaskRole(region) \notin preserved_roles
        /\ ~MatchesTime(Lower(text))
        /\ \/ MaskRole(region) \in editable_roles
           \/ Len(text) >= 2
           \/ IsAlnum(text)

MaskBuilt == prog \in {"removable", "refine"} /\ Len(runs) > 0

\* C5 (as claimed): before dilation the mask is white exactly on the shapes
\* of the regions whose role is not in the KEEP set, a region without a
\* classification result included.
C5_WhiteOnEveryNonKeep ==
    MaskBuilt =>
        \A p \in Pixels :
            mask_pre[p] = 255 <=>
                \E k \in 1..Len(MaskRegions) :
                    /\ MaskRole(MaskRegions[k]) \notin MaskKeep
                    /\ p \in ShapePixels(MaskRegions[k])

\* C5 (amended): before dilation the mask is 255 exactly on the shapes of
\* the regions the builder draws and 0 elsewhere.  create_removable_mask
\* draws every region whose role (default "body") is not product_text or
\* logo; refine_mask draws the regions with a role outside its preserved set
\* whose text is not a clock time and that have an editable role or a text
\* of two characters or an alphanumeric one, which leaves out a region
\* without classification result.
C5_WhiteOnDrawnRegions ==
    MaskBuilt =>
        \A p \in Pixels :
            /\ mask_pre[p] \in {0, 255}
            /\ mask_pre[p] = 255 <=>
                  \E k \in 1..Len(MaskRegions) :
                      /\ IF prog = "removable"
                         THEN MaskRole(MaskRegions[k]) \notin KeepRoles
                         ELSE RefineDraws(MaskRegions[k])
                      /\ p \in ShapePixels(MaskRegions[k])

\* C5 witness: refine_mask has drawn one region and left out another whose
\* role is not preserved.
C5_Witness ==
    /\ prog = "refine" /\ Len(runs) > 0
    /\ \E j, k \in 1..Len(regions) :
          /\ MaskRole(regions[j]) \notin preserved_roles
          /\ ~RefineDraws(regions[j])
          /\ \A p \in ShapePixels(regions[j]) : mask_pre[p] = 0
          /\ RefineDraws(regions[k])
          /\ \A p \in ShapePixels(regions[k]) : mask_pre[p] = 255

\* The masks of the current state: the per-layer erase mask and the global
\* mask, before and after dilation, and the masks of the earlier runs.
Masks ==
    {m \in {layer_mask_pre, layer_mask, mask_pre, mask_out, text_mask_file} : m # NoFile}
        \cup {runs[i] : i \in 1..Len(runs)}

\* C6: every mask (global removable, refined, per-layer), before and after
\* dilation, holds only the values 0 and 255.
C6_MasksBinary ==
    \A m \in Masks : \A p \in Pixels : m[p] \in {0, 255}

\* C6 witness: a refined mask that dilation has grown, with white and black
\* pixels.
C6_Witness ==
    /\ prog = "refine" /\ Len(runs) > 0
    /\ \E p, q \in Pixels :
          /\ mask_pre[p] = 0 /\ mask_out[p] = 255
          /\ mask_out[q] = 0

\* C7: every run of a mask builder on one region list gives the same mask,
\* pixel for pixel and of the same height and width, whatever the run found
\* in the run directory: no mask file, the raw detection mask, or the mask
\* the run before left there, from whose shape refine_mask takes the
\* dimensions when the JSON does not give both; and the file left behind
\* holds the mask of these runs.  (A run that finds neither both dimensions
\* in the JSON nor a mask file builds no mask and is not among them.)
C7_Deterministic ==
    MaskBuilt =>
        /\ \A i, j \in 1..Len(runs) : runs[i] = runs[j] /\ shapes[i] = shapes[j]
        /\ prog = "refine" => text_mask_file = runs[1] /\ text_mask_shape = shapes[1]

\* C7 witness: refine_mask has run twice on a JSON without dimensions for
\* an image wider than high, the first time over a raw mask file that
\* differs from its result, the second time over that result, and dilation
\* has reached the last row of the array.
C7_Witness ==
    /\ prog = "refine" /\ Len(runs) = 2
    /\ json_dims.width = 0 /\ shapes[2][1] < shapes[2][2]
    /\ backup_file # NoFile /\ backup_file # runs[1]
    /\ \E p \in Pixels : mask_pre[p] = 0 /\ runs[2][p] = 255 /\ p[2] = shapes[2][1] - 1

\* C8: a pixel that is 255 before dilation is 255 after it, for the
\* per-layer mask (one iteration) and the refined mask (two iterations).
C8_DilationMonotone ==
    /\ layer_mask # NoFile =>
          \A p \in Pixels : layer_mask_pre[p] = 255 => layer_mask[p] = 255
    /\ mask_out # NoFile =>
          \A p \in Pixels : mask_pre[p] = 255 => mask_out[p] = 255

\* C8 witness: a refined mask with a white pixel that dilation kept and a
\* black one that it turned white.
C8_Witness ==
    /\ prog = "refine" /\ mask_out # NoFile
    /\ \E p, q \in Pixels :
          /\ mask_pre[p] = 255 /\ mask_out[p] = 255
          /\ mask_pre[q] = 0 /\ mask_out[q] = 255

\* =====================================================================
\* Properties of the font resolver
\* =====================================================================

SameArguments(a, b) ==
    /\ a.primary_font = b.primary_font
    /\ a.fallback_font = b.fallback_font
    /\ a.weight_input = b.weight_input
    /\ a.snapshot = b.snapshot

\* C10: two calls of normalize_font_and_weight with the same primary family,
\* fallback family, weight and catalog content return the same (family,
\* weight) pair, whatever calls came before or in between: every call leaves
\* the catalog it was given with the content it had at the call, and the
\* lists of the module's table of limited families as they were loaded,
\* although get_available_weights hands the table's own list to the call;
\* what a call appends to or sorts is a list it made itself.
C10_ResolverPure ==
    /\ \A i, j \in 1..Len(calls) :
          SameArguments(calls[i], calls[j]) => calls[i].result = calls[j].result
    /\ \A i \in 1..Len(calls) : catalogs[calls[i].cache] = calls[i].snapshot
    /\ prog = "fonts" => limited_fonts = LIMITED_WEIGHT_FONTS

\* C10 witness: the same request is made before and after a request for the
\* same family with another catalog, and the resolver switched family; the
\* family asked for is one of the limited table, so the call held the
\* table's list, and the answer came from the category scan, which made
\* four lists, appended to three of them and sorted the two candidates, the
\* later one first.
C10_Witness ==
    /\ Len(calls) = 3
    /\ SameArguments(calls[1], calls[3])
    /\ calls[2].primary_font = calls[1].primary_font
    /\ calls[2].snapshot # calls[1].snapshot
    /\ calls[2].result # calls[1].result
    /\ calls[3].result[1] # calls[3].primary_font
    /\ calls[3].primary_font = "Bangers" /\ calls[3].weight_input = WeightNumber(600)
    /\ calls[3].result = <<"Comfortaa", 600>> /\ calls[3].lists = 4

\* =====================================================================
\* The layered run: clean_layers, then composite_layers.
\* =====================================================================
\* run_pipeline_pro.py: one region's font request resolved against the
\* catalog loaded at start-up
\* =====================================================================

\* The weights Gemini may report: the hundreds, values between and beyond
\* them, and names.
RegionWeights ==
    {WeightNumber(n) : n \in {50, 100, 200, 250, 300, 400, 500, 600, 700, 800, 900, 950}}
        \cup {WeightName(<<"B", "o", "l", "d">>), WeightName(<<"L", "i", "g", "h", "t">>),
              WeightName(<<"B", "l", "a", "c", "k">>)}

\* g_data of one region: primary_font, fallback_font and font_weight, and
\* the catalog load_google_fonts_cache() returned.
RegionRequests ==
    [primary_font : Range(FontNames),
     fallback_font : {"", "Oswald", "Lato", "Playfair Display", "Unlisted Grotesk"},
     weight_input : RegionWeights,
     cache : {1, 2, 3}]

InitResolve ==
    /\ prog = "resolve" /\ pc = "ready"
    /\ catalogs = <<CatalogA, CatalogB, CatalogC>>
    /\ limited_fonts = LIMITED_WEIGHT_FONTS
    /\ calls = <<>>
    /\ InitLayeredIdle /\ InitMaskIdle /\ InitRestIdle

\* Lines 203-211 of run_pipeline_pro.py for one region that has an analysis.
NormalizeRegion ==
    /\ prog = "resolve" /\ pc = "ready"
    /\ Len(calls) < MaxResolved
    /\ \E req \in RegionRequests :
       \E returned \in {normalize_font_and_weight(req.primary_font, req.fallback_font,
                             req.weight_input, Memory(catalogs[req.cache]))} :
          /\ calls' = Append(calls,
                [primary_font |-> req.primary_font, fallback_font |-> req.fallback_font,
                 weight_input |-> req.weight_input, cache |-> req.cache,
                 snapshot |-> catalogs[req.cache],
                 result |-> returned.value, lists |-> Len(returned.memory.made)])
          /\ limited_fonts' = returned.memory.limited
          /\ catalogs' = [catalogs EXCEPT ![req.cache] = returned.memory.fonts_cache]
    /\ UNCHANGED <<rest_vars, prog, pc, layered_vars, mask_vars>>

\* ---------------------------------------------------------------------
\* Properties of the resolution chain
\* ---------------------------------------------------------------------

\* The target weight of a call, and what each family offers for it.
TargetOf(call) == ClampAndRound(TargetOfInput(call.weight_input))
Offered(font, call) ==
    LET got == get_available_weights(font, Memory(call.snapshot))
    IN  Range(ListAt(got.memory, got.list))
DistanceOf(font, call) == SetMin({Abs(w - TargetOf(call)) : w \in Offered(font, call)})
NearestOf(font, call) ==
    SetMin({w \in Offered(font, call) : Abs(w - TargetOf(call)) = DistanceOf(font, call)})

\* The fallback family is consulted only when it is named and catalogued.
FallbackUsable(call) ==
    call.fallback_font # "" /\ InCache(call.fallback_font, call.snapshot)

\* The positions of the curated table's entry for the primary family that
\* are catalogued.
SeedsOf(call) ==
    LET similar == SIMILAR_FONTS_SEED(call.primary_font)
    IN  {k \in 1..Len(similar) : InCache(similar[k], call.snapshot)}
SeedFont(call, k) == SIMILAR_FONTS_SEED(call.primary_font)[k]
ExactSeeds(call) ==
    {k \in SeedsOf(call) : TargetOf(call) \in Offered(SeedFont(call, k), call)}
BestSeed(call) ==
    LET d == SetMin({DistanceOf(SeedFont(call, k), call) : k \in SeedsOf(call)})
    IN  SetMin({k \in SeedsOf(call) : DistanceOf(SeedFont(call, k), call) = d})

\* The families of the primary family's category whose nearest variant is
\* within 200 of the target, each with that distance.
SameCategory(call) ==
    IF ~InCache(call.primary_font, call.snapshot) THEN {}
    ELSE LET own == CacheEntry(call.primary_font, call.snapshot).category
             category == IF own = None THEN "sans-serif" ELSE own
             dist(i) == SetMin({Abs(w - TargetOf(call)) :
                                  w \in Range(CategoryScanWeights(call.snapshot[i].files))})
         IN  {[name |-> call.snapshot[i].name, diff |-> dist(i)] :
                 i \in {j \in 1..Len(call.snapshot) :
                          /\ call.snapshot[j].name # call.primary_font
                          /\ call.snapshot[j].category = category
                          /\ CategoryScanWeights(call.snapshot[j].files) # <<>>
                          /\ dist(j) <= 200}}
BestSameCategory(call) ==
    CHOOSE c \in SameCategory(call) :
        \A d \in SameCategory(call) :
            c.diff < d.diff \/ (c.diff = d.diff /\ NameRank(c.name) <= NameRank(d.name))

\* The step of the chain that answers a call: 1 primary exact, 2 primary
\* within 100, 3 fallback exact, 4 fallback closer, 5 exact seed, 6 closer
\* seed, 7 closer family of the same category, 8 primary at its nearest.
ChainStep(call) ==
    LET t == TargetOf(call)
        dp == DistanceOf(call.primary_font, call)
    IN  IF t \in Offered(call.primary_font, call) THEN 1
        ELSE IF dp <= 100 THEN 2
        ELSE IF FallbackUsable(call) /\ t \in Offered(call.fallback_font, call) THEN 3
        ELSE IF FallbackUsable(call) /\ DistanceOf(call.fallback_font, call) < dp THEN 4
        ELSE IF ExactSeeds(call) # {} THEN 5
        ELSE IF SeedsOf(call) # {} /\ DistanceOf(SeedFont(call, BestSeed(call)), call) < dp
             THEN 6
        ELSE IF SameCategory(call) # {} /\ BestSameCategory(call).diff < dp THEN 7
        ELSE 8

\* C11: every call is answered by the first step of the chain that succeeds:
\* primary at the exact target; primary at its nearest weight when that is
\* within 100; fallback at the exact target; fallback at its nearest weight
\* when strictly nearer than the primary; the first catalogued seed family
\* that has the exact target; the nearest seed family when strictly nearer
\* than the primary; the best family of the same category (by distance, then
\* name) when strictly nearer than the primary; else the primary at its
\* nearest weight.
C11_ChainOrder ==
    \A i \in 1..Len(calls) :
        LET call == calls[i]
            t == TargetOf(call)
            step == ChainStep(call)
            font == call.result[1]
            weight == call.result[2]
        IN  /\ step = 1 => font = call.primary_font /\ weight = t
            /\ step = 2 => font = call.primary_font
                           /\ weight = NearestOf(call.primary_font, call)
            /\ step = 3 => font = call.fallback_font /\ weight = t
            /\ step = 4 => font = call.fallback_font
                           /\ weight = NearestOf(call.fallback_font, call)
            /\ step = 5 => font = SeedFont(call, SetMin(ExactSeeds(call))) /\ weight = t
            /\ step = 6 => font = SeedFont(call, BestSeed(call))
                           /\ weight = NearestOf(font, call)
            /\ step = 7 => font = BestSameCategory(call).name
                           /\ Abs(weight - t) = BestSameCategory(call).diff
            /\ step = 8 => font = call.primary_font
                           /\ weight = NearestOf(call.primary_font, call)

\* A call answered by the first of two catalogued seed families that both
\* have the exact target.
C11_Witness ==
    /\ prog = "resolve"
    /\ \E i \in 1..Len(calls) :
          /\ ChainStep(calls[i]) = 5
          /\ Cardinality(ExactSeeds(calls[i])) >= 2
          /\ calls[i].result[1] = SeedFont(calls[i], SetMin(ExactSeeds(calls[i])))

\* C12: a result whose family is not the requested primary family has a
\* weight strictly nearer to the target than the nearest weight of the
\* primary family.
C12_OtherFamilyStrictlyNearer ==
    \A i \in 1..Len(calls) :
        calls[i].result[1] # calls[i].primary_font
            => Abs(calls[i].result[2] - TargetOf(calls[i]))
                 < DistanceOf(calls[i].primary_font, calls[i])

\* A call answered by another family at a weight that is not the target.
C12_Witness ==
    /\ prog = "resolve"
    /\ \E i \in 1..Len(calls) :
          /\ calls[i].result[1] # calls[i].primary_font
          /\ calls[i].result[2] # TargetOf(calls[i])
          /\ ChainStep(calls[i]) \in {4, 6, 7}

\* =====================================================================
\* google_fonts_runtime_loader.py: get_font_path
\* =====================================================================

\* str(n) of a non-negative integer
DigitChars == <<"0", "1", "2", "3", "4", "5", "6", "7", "8", "9">>
RECURSIVE Str(_)
Str(n) == IF n < 10 THEN <<DigitChars[n + 1]>>
          ELSE Append(Str(n \div 10), DigitChars[(n % 10) + 1])

\* Line 57: font_name.replace(" ", "") of the family names of the model.
SafeName(font_name) ==
    CASE font_name = "Bebas Neue" -> "BebasNeue"
      [] font_name = "Playfair Display" -> "PlayfairDisplay"
      [] font_name = "Unlisted Grotesk" -> "UnlistedGrotesk"
      [] OTHER -> font_name

\* Lines 58, 136 and 142: a file under FONT_DIR, and a bundled Roboto file
\* under <project>/fonts.
LocalPath(font_name, font_weight) ==
    [dir |-> "FONT_DIR", safe_name |-> SafeName(font_name), weight |-> font_weight]
BundledPath(weight) == [dir |-> "fonts", safe_name |-> "Roboto", weight |-> weight]

\* font_name in fonts_data, and fonts_data[font_name]
HasFamily(fonts_data, font_name) ==
    \E i \in 1..Len(fonts_data) : fonts_data[i].name = font_name
FontInfo(fonts_data, font_name) ==
    fonts_data[SetMax({i \in 1..Len(fonts_data) : fonts_data[i].name = font_name})]

\* What the network does for one call: whether GOOGLE_FONTS_API_KEY is set
\* (read once, when the call first needs it), which catalog the web-fonts
\* API replied with last (0: the request failed), and whether the download
\* of a font file succeeded.
RemoteThin == <<Family("Lato", "sans-serif", <<V_regular>>),
                Family("Roboto", "sans-serif", <<V_100, V_100 \o V_italic>>)>>
RemoteNoRoboto == <<Family("Lato", "sans-serif", <<V_regular, V_700>>)>>
RemoteSparse == <<Family("Roboto", "sans-serif", <<V_100, V_500, V_900 \o V_italic>>),
                  Family("Lato", "sans-serif", <<V_regular>>)>>
\* A catalog whose text is longer than a text file object holds back: every
\* family with every weight, upright and italic.
AllVariants ==
    <<V_100, V_100 \o V_italic, V_200, V_200 \o V_italic, V_300, V_300 \o V_italic,
      V_regular, V_italic, V_500, V_500 \o V_italic, V_600, V_600 \o V_italic,
      V_700, V_700 \o V_italic, V_800, V_800 \o V_italic, V_900, V_900 \o V_italic>>
RemoteWide ==
    <<Family("Lato", "sans-serif", AllVariants),
      Family("Montserrat", "sans-serif", AllVariants),
      Family("Oswald", "sans-serif", AllVariants),
      Family("Playfair Display", "serif", AllVariants),
      Family("Poppins", "sans-serif", AllVariants),
      Family("Raleway", "sans-serif", AllVariants),
      Family("Bebas Neue", "display", AllVariants),
      Family("Comfortaa", "display", AllVariants),
      Family("Lora", "serif", AllVariants),
      Family("Teko", "sans-serif", AllVariants),
      Family("Anton", "sans-serif", AllVariants),
      Family("Bangers", "display", AllVariants),
      Family("Roboto", "sans-serif", AllVariants)>>
RemoteCatalogs == <<CatalogA, RemoteThin>>
Networks ==
    {net \in [api_key : BOOLEAN, reply : 0..Len(RemoteCatalogs), download_ok : BOOLEAN] :
        ~net.api_key => net.reply = 0}

\* ---------------------------------------------------------------------
\* The catalog file as text: json.dump and json.load
\* ---------------------------------------------------------------------

\* The characters of the strings a catalog holds, and the string a sequence
\* of characters spells ("" when it spells none of them).
Chars(str) ==
    CASE str = "Lato" -> <<"L", "a", "t", "o">>
      [] str = "Roboto" -> <<"R", "o", "b", "o", "t", "o">>
      [] str = "Oswald" -> <<"O", "s", "w", "a", "l", "d">>
      [] str = "Anton" -> <<"A", "n", "t", "o", "n">>
      [] str = "Teko" -> <<"T", "e", "k", "o">>
      [] str = "Lora" -> <<"L", "o", "r", "a">>
      [] str = "Bangers" -> <<"B", "a", "n", "g", "e", "r", "s">>
      [] str = "Comfortaa" -> <<"C", "o", "m", "f", "o", "r", "t", "a", "a">>
      [] str = "Bebas Neue" -> <<"B", "e", "b", "a", "s", " ", "N", "e", "u", "e">>
      [] str = "Playfair Display" ->
            <<"P", "l", "a", "y", "f", "a", "i", "r", " ",
              "D", "i", "s", "p", "l", "a", "y">>
      [] str = "Montserrat" -> <<"M", "o", "n", "t", "s", "e", "r", "r", "a", "t">>
      [] str = "Poppins" -> <<"P", "o", "p", "p", "i", "n", "s">>
      [] str = "Raleway" -> <<"R", "a", "l", "e", "w", "a", "y">>
      [] str = "display" -> <<"d", "i", "s", "p", "l", "a", "y">>
      [] str = "serif" -> <<"s", "e", "r", "i", "f">>
      [] str = "sans-serif" -> <<"s", "a", "n", "s", "-", "s", "e", "r", "i", "f">>
      [] str = "family" -> <<"f", "a", "m", "i", "l", "y">>
      [] str = "files" -> <<"f", "i", "l", "e", "s">>
      [] str = "category" -> <<"c", "a", "t", "e", "g", "o", "r", "y">>
      [] OTHER -> <<>>
CatalogStrings ==
    {"Lato", "Roboto", "Oswald", "Anton", "Teko", "Lora", "Bangers", "Comfortaa",
     "Bebas Neue", "Playfair Display", "Montserrat", "Poppins", "Raleway",
     "display", "serif", "sans-serif"}
StringOf(chars) ==
    IF \E str \in CatalogStrings : Chars(str) = chars
    THEN CHOOSE str \in CatalogStrings : Chars(str) = chars
    ELSE ""

\* A JSON value: a string, or an object with its members in order.
JsonStr(chars) == [kind |-> "str", str |-> chars, members |-> <<>>]
JsonObj(members) == [kind |-> "obj", str |-> <<>>, members |-> members]
Member(key, value) == [key |-> key, value |-> value]

\* Line 40: fonts_map = {item["family"]: item for item in data["items"]}.
\* An item holds its family, its files (variant: URL) and, if it has one,
\* its category.
Item(family) ==
    JsonObj(<<Member(Chars("family"), JsonStr(Chars(family.name))),
              Member(Chars("files"),
                     JsonObj([i \in 1..Len(family.files) |->
                                Member(family.files[i],
                                       JsonStr(Chars(family.name) \o <<"/">>
                                               \o family.files[i]
                                               \o <<".", "t", "t", "f">>))]))>>
            \o IF family.category = None THEN <<>>
               ELSE <<Member(Chars("category"), JsonStr(Chars(family.category)))>>)
FontsMap(fonts_map) ==
    JsonObj([i \in 1..Len(fonts_map) |->
               Member(Chars(fonts_map[i].name), Item(fonts_map[i]))])

\* json.dump(fonts_map, f, indent=2) hands the text to f.write string by
\* string: a brace, a newline with its indent, a quoted string, ": ", a
\* comma with the newline and indent that follow it.
Quoted(chars) == <<"\"">> \o chars \o <<"\"">>
NewlineIndent(level) == <<"\n">> \o [i \in 1..(2 * level) |-> " "]
RECURSIVE iterencode(_, _)
RECURSIVE iterencode_dict(_, _, _)
iterencode(o, level) ==
    IF o.kind = "str" THEN <<Quoted(o.str)>>
    ELSE IF o.members = <<>> THEN <<(<<"{", "}">>)>>
    ELSE <<(<<"{">>), NewlineIndent(level + 1)>>
         \o iterencode_dict(o.members, Len(o.members), level + 1)
         \o <<NewlineIndent(level), (<<"}">>)>>
iterencode_dict(members, k, level) ==
    IF k = 0 THEN <<>>
    ELSE iterencode_dict(members, k - 1, level)
         \o (IF k > 1 THEN <<(<<",">> \o NewlineIndent(level))>> ELSE <<>>)
         \o <<Quoted(members[k].key), (<<":", " ">>)>>
         \o iterencode(members[k].value, level)

\* The strings written, one after the other.
RECURSIVE ConcatRange(_, _, _)
ConcatRange(strings, first, last) ==
    IF first > last THEN <<>>
    ELSE IF first = last THEN strings[first]
    ELSE ConcatRange(strings, first, (first + last) \div 2)
         \o ConcatRange(strings, (first + last) \div 2 + 1, last)
Concat(strings) == ConcatRange(strings, 1, Len(strings))

\* Line 42: open(GOOGLE_FONTS_CACHE, "w") gives a text file object that
\* holds back up to 8192 characters (CPython's TextIOWrapper).
ChunkSize == 8192

\* f.write on the text file of open(..., "w"): the strings wait in the
\* file object until ChunkSize characters are pending; a string that would
\* take the pending text over ChunkSize sends the pending text to the file
\* first.  `buffered` is the file object after a write: the characters sent
\* to the file, those pending, and the file offsets at which the writes to
\* the file ended.
Buffered(written, pending, ends) ==
    [written |-> written, pending |-> pending, ends |-> ends]
Write(buffered, size) ==
    IF buffered.pending > 0 /\ buffered.pending + size > ChunkSize
    THEN IF size >= ChunkSize
         THEN Buffered(buffered.written + buffered.pending + size, 0,
                       buffered.ends \o <<buffered.written + buffered.pending,
                                          buffered.written + buffered.pending + size>>)
         ELSE Buffered(buffered.written + buffered.pending, size,
                       Append(buffered.ends, buffered.written + buffered.pending))
    ELSE IF buffered.pending + size >= ChunkSize
    THEN Buffered(buffered.written + buffered.pending + size, 0,
                  Append(buffered.ends, buffered.written + buffered.pending + size))
    ELSE Buffered(buffered.written, buffered.pending + size, buffered.ends)
RECURSIVE WriteRange(_, _, _, _)
WriteRange(strings, first, last, buffered) ==
    IF first > last THEN buffered
    ELSE IF first = last THEN Write(buffered, Len(strings[first]))
    ELSE CHOOSE after \in
             {WriteRange(strings, (first + last) \div 2 + 1, last, before) :
                 before \in {WriteRange(strings, first, (first + last) \div 2, buffered)}} :
             TRUE
\* What is left is written when the file is closed.  The result is the
\* file offsets at which the writes of one json.dump end.
Closed(buffered) ==
    IF buffered.pending > 0
    THEN Append(buffered.ends, buffered.written + buffered.pending)
    ELSE buffered.ends
WriteEnds(strings) == Closed(WriteRange(strings, 1, Len(strings), Buffered(0, 0, <<>>)))

\* What json.dump makes of a catalog: its text, and where its writes end.
Dump(fonts_map) ==
    [text |-> Concat(iterencode(FontsMap(fonts_map), 0)),
     ends |-> WriteEnds(iterencode(FontsMap(fonts_map), 0))]
Catalogs ==
    {CatalogA, CatalogB, CatalogC, RemoteThin, RemoteNoRoboto, RemoteSparse, RemoteWide}
DumpPool == {[of |-> fonts_map, box |-> Dump(fonts_map)] : fonts_map \in Catalogs}
Dumped(fonts_map) == KnownOr(Known(DumpPool, fonts_map), Dump(fonts_map))

\* The bytes of the file, kept as the extents they were written in: bytes
\* from..to of the text json.dump makes of a catalog, or a hole of NUL bytes
\* that a write past the end of the file left behind.
NulByte == "NUL"
Extent(fonts_map, from, to) ==
    [nul |-> FALSE, fonts_map |-> fonts_map, from |-> from, to |-> to]
Hole(size) == [nul |-> TRUE, fonts_map |-> <<>>, from |-> 1, to |-> size]
Size(extent) == extent.to - extent.from + 1
RECURSIVE FileSize(_)
FileSize(text) == IF text = <<>> THEN 0 ELSE Size(text[1]) + FileSize(Tail(text))
RECURSIVE Bytes(_)
Bytes(text) ==
    IF text = <<>> THEN <<>>
    ELSE (IF text[1].nul THEN [i \in 1..Size(text[1]) |-> NulByte]
          ELSE SubSeq(Dumped(text[1].fonts_map).text, text[1].from, text[1].to))
         \o Bytes(Tail(text))

\* The first `size` bytes of the file, and the bytes after them.
RECURSIVE FirstBytes(_, _)
FirstBytes(text, size) ==
    IF size <= 0 \/ text = <<>> THEN <<>>
    ELSE IF Size(text[1]) <= size
    THEN <<text[1]>> \o FirstBytes(Tail(text), size - Size(text[1]))
    ELSE <<[text[1] EXCEPT !.to = text[1].from + size - 1]>>
RECURSIVE SkipBytes(_, _)
SkipBytes(text, size) ==
    IF size <= 0 \/ text = <<>> THEN text
    ELSE IF Size(text[1]) <= size THEN SkipBytes(Tail(text), size - Size(text[1]))
    ELSE <<[text[1] EXCEPT !.from = text[1].from + size]>> \o Tail(text)

\* Extents that continue one another are one extent.
Glue(extent, rest) ==
    IF extent.nul /\ rest[1].nul
    THEN <<Hole(Size(extent) + Size(rest[1]))>> \o Tail(rest)
    ELSE IF /\ ~extent.nul /\ ~rest[1].nul
            /\ extent.fonts_map = rest[1].fonts_map
            /\ rest[1].from = extent.to + 1
    THEN <<[extent EXCEPT !.to = rest[1].to]>> \o Tail(rest)
    ELSE <<IF extent.nul THEN Hole(Size(extent)) ELSE extent>> \o rest
RECURSIVE Joined(_)
Joined(text) ==
    IF text = <<>> THEN <<>>
    ELSE IF Len(text) = 1
    THEN <<IF text[1].nul THEN Hole(Size(text[1])) ELSE text[1]>>
    ELSE Glue(text[1], Joined(Tail(text)))

\* The file after json.dump(fonts_map, f, indent=2) and the close.
JsonDump(fonts_map) == <<Extent(fonts_map, 1, Len(Dumped(fonts_map).text))>>

\* json.load(f) reads the text.  Whitespace may stand between the tokens; a
\* string runs to the next quote and holds no control character (the texts
\* hold no backslash); a value is a string or an object, since no text made
\* of the dumps' characters completes a number or a literal.
JsonWs == {" ", "\n", "\t", "\r"}
JsonControl == {"\n", "\t", "\r", NulByte}
SkipWs(chars, i) ==
    CHOOSE j \in i..(Len(chars) + 1) :
        /\ j > Len(chars) \/ chars[j] \notin JsonWs
        /\ \A k \in i..(j - 1) : chars[k] \in JsonWs
CloseQuote(chars, i) ==
    CHOOSE j \in (i + 1)..(Len(chars) + 1) :
        /\ j > Len(chars) \/ chars[j] = "\""
        /\ \A k \in (i + 1)..(j - 1) : chars[k] # "\""
Failed == [ok |-> FALSE, next |-> 0, value |-> JsonStr(<<>>)]
Parsed(next, value) == [ok |-> TRUE, next |-> next, value |-> value]
ParseString(chars, i, close) ==
    IF close > Len(chars) \/ \E k \in (i + 1)..(close - 1) : chars[k] \in JsonControl
    THEN Failed
    ELSE Parsed(close + 1, JsonStr(SubSeq(chars, i + 1, close - 1)))
RECURSIVE ParseValue(_, _)
RECURSIVE ParseMembers(_, _, _)
ParseValue(chars, i) ==
    IF i > Len(chars) THEN Failed
    ELSE IF chars[i] = "\"" THEN ParseString(chars, i, CloseQuote(chars, i))
    ELSE IF chars[i] # "{" THEN Failed
    ELSE IF SkipWs(chars, i + 1) <= Len(chars) /\ chars[SkipWs(chars, i + 1)] = "}"
    THEN Parsed(SkipWs(chars, i + 1) + 1, JsonObj(<<>>))
    ELSE ParseMembers(chars, SkipWs(chars, i + 1), <<>>)
\* A member begins at i: its key, the colon after the key, then the value,
\* and after the value a comma and the next member, or the closing brace.
ParseMembers(chars, i, members) ==
    LET key == ParseString(chars, i, CloseQuote(chars, i))
        colon == SkipWs(chars, key.next)
        value == ParseValue(chars, SkipWs(chars, colon + 1))
        after == SkipWs(chars, value.next)
        member ==
            /\ i <= Len(chars) /\ chars[i] = "\"" /\ key.ok
            /\ colon <= Len(chars) /\ chars[colon] = ":"
            /\ value.ok /\ after <= Len(chars)
    IN  IF member /\ chars[after] = ","
        THEN CHOOSE parsed \in
                 {ParseMembers(chars, next, all) :
                     next \in {SkipWs(chars, after + 1)},
                     all \in {Append(members, Member(key.value.str, value.value))}} :
                 TRUE
        ELSE IF member /\ chars[after] = "}"
        THEN Parsed(after + 1, JsonObj(Append(members, Member(key.value.str, value.value))))
        ELSE Failed

\* A dict made of the members of an object: its keys in the order of their
\* first members, the value of a key that of its last member.
HasKey(o, key) == o.kind = "obj" /\ \E i \in 1..Len(o.members) : o.members[i].key = key
ValueOf(o, key) ==
    o.members[CHOOSE i \in 1..Len(o.members) :
                 /\ o.members[i].key = key
                 /\ \A j \in (i + 1)..Len(o.members) : o.members[j].key # key].value
FirstMembers(o) ==
    {i \in 1..Len(o.members) : \A j \in 1..(i - 1) : o.members[j].key # o.members[i].key}
KeysOf(o) ==
    [n \in 1..Cardinality(FirstMembers(o)) |->
        o.members[CHOOSE i \in FirstMembers(o) :
                     Cardinality({j \in FirstMembers(o) : j <= i}) = n].key]

\* fonts_data as the loader reads it: the families in the order of the
\* text, each with its category (if any) and the keys of its files (the
\* items of the catalogs are objects, and so are their files).
FamilyOf(key, item) ==
    Family(StringOf(key),
           IF HasKey(item, Chars("category")) THEN StringOf(ValueOf(item, Chars("category")).str)
           ELSE None,
           IF HasKey(item, Chars("files")) THEN KeysOf(ValueOf(item, Chars("files")))
           ELSE <<>>)
Decoded(chars, value) ==
    IF /\ value.ok /\ value.value.kind = "obj"
       /\ SkipWs(chars, value.next) > Len(chars)
    THEN [ok |-> TRUE,
          fonts_data |-> [n \in 1..Len(KeysOf(value.value)) |->
                             FamilyOf(KeysOf(value.value)[n],
                                      ValueOf(value.value, KeysOf(value.value)[n]))]]
    ELSE [ok |-> FALSE, fonts_data |-> <<>>]

\* json.load: the object the text holds, with nothing but whitespace around
\* it (the first byte of the file is a brace or a hole, never a quote).
json_load(chars) == Decoded(chars, ParseValue(chars, SkipWs(chars, 1)))
LoadPool ==
    {[of |-> JsonDump(fonts_map), box |-> json_load(Dumped(fonts_map).text)] :
        fonts_map \in Catalogs}
Read(text) == KnownOr(Known(LoadPool, text), json_load(Bytes(text)))

\* Lines 66-67 and 73-74: json.load(f) raises JSONDecodeError, or gives
\* fonts_data.
JsonValid(text) == Read(text).ok
JsonLoad(text) == Read(text).fonts_data

\* A variant of the existence test that never finds the file.
PathNeverExists(dir, path) == FALSE

\* Line 60: os.path.exists(local_path)
PathExists(dir, path) == \E f \in dir : f.path = path

\* The ways a call ends: a path, or an exception.
NoPath == [dir |-> "", safe_name |-> "", weight |-> 0]
Returned(st, path) ==
    [st EXCEPT !.at = "done", !.outcome = [kind |-> "path", path |-> path]]
Raised(st, error) ==
    [st EXCEPT !.at = "done", !.outcome = [kind |-> error, path |-> NoPath]]

\* A variant of the scan of the file keys that also counts the weight of an
\* italic variant such as "900italic", as the normalizer's scans do.
UprightAndItalicWeights(files) == CategoryScanWeights(files)

\* Lines 104-119: the upright weights among the file keys, and the first of
\* the nearest ones.
UprightWeights(files) ==
    LET keys == {i \in 1..Len(files) : files[i] = V_regular \/ IsDigit(files[i])}
        weight(i) == IF files[i] = V_regular THEN 400 ELSE ParseInt(files[i])
        RECURSIVE scan(_)
        scan(k) == IF k = 0 THEN <<>>
                   ELSE IF k \in keys THEN Append(scan(k - 1), weight(k))
                   ELSE scan(k - 1)
    IN  scan(Len(files))

\* Lines 94-97 and 123-126: the file key of a weight.
VariantOf(weight) == IF weight = 400 THEN V_regular ELSE Str(weight)

\* A call of get_font_path(font_name, font_weight) at its first line: the
\* arguments of the caller and of the innermost call (frame), where the run
\* stands (at), what it has learnt of the network, the files as it found
\* them and as its latest step left them, and what it has done so far.
NewCall(n, font_name, font_weight) ==
    [n |-> n, font_name |-> font_name, font_weight |-> font_weight,
     frame |-> [font_name |-> font_name, font_weight |-> font_weight, depth |-> 0],
     at |-> "line54", return_to |-> "",
     net |-> [api_key |-> FALSE, reply |-> 0, download_ok |-> TRUE],
     key_read |-> FALSE, overlapped |-> FALSE, ended |-> 0,
     cache_before |-> cache_file, dir_before |-> font_dir,
     resolved_before |-> resolved,
     cache_file |-> cache_file, font_dir |-> font_dir,
     outcome |-> [kind |-> "", path |-> NoPath],
     refreshes |-> 0, requests |-> 0, downloads |-> <<>>]

\* Lines 153-157: requests.get(font_url) is sent for files[variant]; the call
\* waits for the response.
Download(st, font_name, variant, local_path) ==
    [st EXCEPT !.at = "line157",
               !.downloads = Append(@, [family |-> font_name, variant |-> variant,
                                        path |-> local_path])]

\* Lines 158-167: the response of the download.  The file is written to
\* local_path, in FONT_DIR as it is now, and the path returned; a failed
\* request raises.
FromLine158(st, net) ==
    LET asked == st.downloads[Len(st.downloads)]
    IN  IF net.download_ok
        THEN Returned([st EXCEPT !.font_dir =
                          {f \in @ : f.path # asked.path}
                              \cup {[path |-> asked.path, family |-> asked.family,
                                     variant |-> asked.variant]},
                                 !.net.download_ok = TRUE],
                      asked.path)
        ELSE Raised([st EXCEPT !.net.download_ok = FALSE], "RequestException")

RECURSIVE get_font_path(_, _)
RECURSIVE FromLine57(_, _)
RECURSIVE FromLine73(_, _)

\* fetch_full_google_fonts_cache(), lines 22-35, called from line 55
\* (return_to "line57") or line 72 (return_to "line73"): without the API key
\* it returns at once and the call goes on; with it requests.get is sent and
\* the call waits for the response.
fetch_full_google_fonts_cache(st, net, return_to) ==
    LET api_key == IF st.key_read THEN st.net.api_key ELSE net.api_key
        begun == [st EXCEPT !.refreshes = @ + 1, !.key_read = TRUE,
                            !.net.api_key = api_key]
    IN  IF api_key
        THEN [begun EXCEPT !.requests = @ + 1, !.at = "line35",
                           !.return_to = return_to]
        ELSE IF return_to = "line57" THEN FromLine57(begun, net)
        ELSE FromLine73(begun, net)

\* Lines 90-151: the variant of the family to download, or the Roboto
\* fallback.  The call of line 139 or 144 starts at line 54 with the files
\* as they are; when its arguments are those of the call it is made from, it
\* returns at line 60 if the file is there by now, and else meets the same
\* catalog, reaches the same line and nests again, and so does every later
\* one: the nesting ends with Python's RecursionError.
FromLine90(st, fonts_data, used_name, net) ==
    LET font_weight == st.frame.font_weight
        local_path == LocalPath(st.frame.font_name, font_weight)
        files == FontInfo(fonts_data, used_name).files
        variant == VariantOf(font_weight)
        has_variant == \E i \in 1..Len(files) : files[i] = variant
        available_weights == UprightWeights(files)
        best_weight == MinByDistance(available_weights, font_weight)
        near == /\ Len(available_weights) > 0
                /\ Abs(best_weight - font_weight) <= 200
        roboto_weight == IF font_weight >= 600 THEN 700 ELSE 400
    IN  IF has_variant THEN Download(st, used_name, variant, local_path)
        ELSE IF near THEN Download(st, used_name, VariantOf(best_weight), local_path)
        ELSE IF roboto_weight \in bundled_fonts
        THEN Returned(st, BundledPath(roboto_weight))
        ELSE IF st.frame.font_name = "Roboto" /\ font_weight = roboto_weight
        THEN IF PathExists(st.font_dir, local_path) THEN Returned(st, local_path)
             ELSE Raised(st, "RecursionError")
        ELSE get_font_path([st EXCEPT !.frame = [font_name |-> "Roboto",
                                                 font_weight |-> roboto_weight,
                                                 depth |-> @.depth + 1]], net)

\* Lines 57-72: the file of the request, if it is there; else the catalog
\* file as it is now, and the refresh when the family is not in it.
FromLine57(st, net) ==
    LET font_name == st.frame.font_name
        local_path == LocalPath(font_name, st.frame.font_weight)
    IN  IF PathExists(st.font_dir, local_path) THEN Returned(st, local_path)
        ELSE IF ~st.cache_file.present THEN Raised(st, "ValueError")
        ELSE IF ~JsonValid(st.cache_file.text) THEN Raised(st, "JSONDecodeError")
        ELSE IF HasFamily(JsonLoad(st.cache_file.text), font_name)
        THEN FromLine90(st, JsonLoad(st.cache_file.text), font_name, net)
        ELSE fetch_full_google_fonts_cache(st, net, "line73")

\* Lines 73-88: the catalog file as it is after the refresh; the family, or
\* Roboto in its place, or ValueError.
FromLine73(st, net) ==
    IF ~JsonValid(st.cache_file.text) THEN Raised(st, "JSONDecodeError")
    ELSE LET fonts_data == JsonLoad(st.cache_file.text)
             used_name == IF HasFamily(fonts_data, st.frame.font_name)
                          THEN st.frame.font_name ELSE "Roboto"
         IN  IF ~HasFamily(fonts_data, used_name) THEN Raised(st, "ValueError")
             ELSE FromLine90(st, fonts_data, used_name, net)

\* get_font_path(font_name, font_weight) from line 54 to its first wait for
\* the network, or to its end.
get_font_path(st, net) ==
    IF ~st.cache_file.present THEN fetch_full_google_fonts_cache(st, net, "line57")
    ELSE FromLine57(st, net)

\* Lines 36-46 of fetch_full_google_fonts_cache: the response to the request
\* just made (net.reply; every request gets a response of its own).  A
\* catalog is written to the file; a failed request is caught and leaves
\* the file alone.  The call goes on where the fetch was called from.
FromLine36(st, net) ==
    LET got == [st EXCEPT !.net.reply = net.reply,
                          !.cache_file =
                              IF net.reply = 0 THEN @
                              ELSE [present |-> TRUE,
                                    text |-> JsonDump(RemoteCatalogs[net.reply])]]
    IN  IF st.return_to = "line57" THEN FromLine57(got, net) ELSE FromLine73(got, net)

\* The callers' requests: a catalogued family, the default family and a
\* family Google Fonts does not have, at the weights the normalizer returns.
LoaderFamilies == {"Lato", "Roboto", "Unlisted Grotesk"}
LoaderWeights == {100, 200, 300, 400, 500, 600, 700, 800, 900}

\* The files a run finds: no catalog file, with or without a font file
\* downloaded earlier, or a catalog file written by an earlier run.
StoredCatalogs == {CatalogB, RemoteNoRoboto, RemoteThin, RemoteSparse}
FilesAtStart ==
    {[cache_file |-> [present |-> FALSE, text |-> <<>>], font_dir |-> d] :
        d \in {{}, {[path |-> LocalPath("Lato", 700), family |-> "Lato",
                     variant |-> V_700]}}}
    \cup {[cache_file |-> [present |-> TRUE, text |-> JsonDump(c)], font_dir |-> {}] :
            c \in StoredCatalogs}

InitLoader ==
    /\ prog = "loader" /\ pc = "ready"
    /\ \E files \in FilesAtStart :
          cache_file = files.cache_file /\ font_dir = files.font_dir
    /\ bundled_fonts \in {{}, {400, 700}}
    /\ resolved = {} /\ loads = <<>> /\ procs = <<>>
    /\ InitLayeredIdle /\ InitMaskIdle /\ InitFontIdle /\ InitRenderIdle /\ InitRunIdle /\ InitFilterIdle

\* The calls that have ended, and the calls begun so far.
CallsEnded == IF loads = <<>> THEN 0 ELSE loads[1].ended
CallsBegun == CallsEnded + Len(procs)

\* A step of a call gives the files and the call as the step left them.  A
\* call that waits is among procs (kept); one that ended becomes the latest
\* call of loads and leaves procs (rest), and in a run of the loader
\* `resolved` gains its path if it is the first one returned for its request.
WithFiles(call) == [call EXCEPT !.cache_file = cache_file, !.font_dir = font_dir]
Without(p) == [i \in 1..(Len(procs) - 1) |-> IF i < p THEN procs[i] ELSE procs[i + 1]]
Outcome(st, rest, kept) ==
    LET first == ~\E r \in resolved :
                    r.font_name = st.font_name /\ r.font_weight = st.font_weight
    IN  /\ cache_file' = st.cache_file
        /\ font_dir' = st.font_dir
        /\ IF st.at = "done"
           THEN /\ loads' = <<[st EXCEPT !.ended = CallsEnded + 1]>>
                /\ procs' = rest
                /\ resolved' = IF prog = "loader" /\ st.outcome.kind = "path" /\ first
                               THEN resolved \cup {[font_name |-> st.font_name,
                                                    font_weight |-> st.font_weight,
                                                    path |-> st.outcome.path]}
                               ELSE resolved
           ELSE /\ loads' = loads
                /\ procs' = kept
                /\ resolved' = resolved
Stepped(p, st) == Outcome(st, Without(p), [procs EXCEPT ![p] = st])

\* A call begins and runs to its first wait.  The calls that are waiting
\* when it begins have overlapped with it, and it with them.
Began(font_name, font_weight, net) ==
    LET call == [NewCall(CallsBegun + 1, font_name, font_weight) EXCEPT
                    !.overlapped = procs # <<>>]
        st == get_font_path(call, net)
        others == [q \in 1..Len(procs) |-> [procs[q] EXCEPT !.overlapped = TRUE]]
    IN  Outcome(st, others, Append(others, st))

\* One call get_font_path(font_name, font_weight) begins, in a process of
\* its own (api/main.py line 251, run_pipeline_text_rendering.py line 254,
\* render_from_json_pillow.py line 107); n counts the calls.
GetFontPath ==
    /\ prog = "loader" /\ pc = "ready"
    /\ CallsBegun < MaxLoads
    /\ \E font_name \in LoaderFamilies, font_weight \in LoaderWeights, net \in Networks :
          /\ net.reply = 0 /\ net.download_ok
          /\ Began(font_name, font_weight, net)
    /\ UNCHANGED <<prog, pc, layered_vars, mask_vars, font_vars, bundled_fonts,
                   render_vars, run_vars, filter_vars>>

\* What the network may answer: anything to the calls of the loader's own
\* runs, and what the run's network gives (font_face.net) to the calls of a
\* renderer.
Replies ==
    IF prog \in {"render", "pipeline"} THEN {font_face.net.reply}
    ELSE 0..Len(RemoteCatalogs)
Downloads ==
    IF prog \in {"render", "pipeline"} THEN {font_face.net.download_ok} ELSE BOOLEAN

\* The response of the web-fonts API reaches a call that waits at line 35.
FontsApiReply ==
    /\ prog \in {"loader", "assets", "render", "pipeline"}
    /\ \E p \in 1..Len(procs), reply \in Replies :
          /\ procs[p].at = "line35"
          /\ Stepped(p, FromLine36(WithFiles(procs[p]),
                                   [procs[p].net EXCEPT !.reply = reply]))
    /\ UNCHANGED <<prog, pc, layered_vars, mask_vars, font_vars, bundled_fonts,
                   render_vars, run_vars, filter_vars>>

\* The response of the download reaches a call that waits at line 157.
FontFileReply ==
    /\ prog \in {"loader", "assets", "render", "pipeline"}
    /\ \E p \in 1..Len(procs), download_ok \in Downloads :
          /\ procs[p].at = "line157"
          /\ Stepped(p, FromLine158(WithFiles(procs[p]),
                                [procs[p].net EXCEPT !.download_ok = download_ok]))
    /\ UNCHANGED <<prog, pc, layered_vars, mask_vars, font_vars, bundled_fonts,
                   render_vars, run_vars, filter_vars>>

\* ---------------------------------------------------------------------
\* Properties of get_font_path
\* ---------------------------------------------------------------------

\* The latest call that ended, whether no other call was waiting for the
\* network at any time between its first line and its end, the catalog it
\* left in the file, and whether it got as far as reading the catalog
\* (lines 66-67).
Loaded == loads # <<>>
Load == loads[1]
Alone == Loaded /\ ~Load.overlapped
CatalogNow == JsonLoad(Load.cache_file.text)
ReadCatalog ==
    /\ Alone /\ Load.cache_file.present
    /\ ~\E f \in Load.dir_before :
          /\ f.path.dir = "FONT_DIR" /\ f.path.safe_name = SafeName(Load.font_name)
          /\ f.path.weight = Load.font_weight

\* The requested family is in the catalog neither before nor after the
\* refresh of lines 69-74.
FamilyMissing == ReadCatalog /\ ~HasFamily(CatalogNow, Load.font_name)

\* The font a returned path holds: the family and variant downloaded to a
\* file of FONT_DIR, or Roboto at the weight of a bundled file.
Delivered ==
    IF Load.outcome.path.dir = "fonts"
    THEN [family |-> "Roboto", weight |-> Load.outcome.path.weight]
    ELSE LET file == CHOOSE f \in Load.font_dir : f.path = Load.outcome.path
         IN  [family |-> file.family,
              weight |-> IF file.variant = V_regular THEN 400 ELSE ParseInt(file.variant)]

\* The upright weights the catalog lists for Roboto, and what lines 90-127
\* make of a weight: the weight itself if Roboto lists it, else the nearest
\* listed weight (the first listed among equally near ones) if it is within
\* 200, else 0 for none.
RobotoFiles == FontInfo(CatalogNow, "Roboto").files
RobotoKeys == {i \in 1..Len(RobotoFiles) : RobotoFiles[i] = V_regular \/ IsDigit(RobotoFiles[i])}
RobotoWeightAt(i) == IF RobotoFiles[i] = V_regular THEN 400 ELSE ParseInt(RobotoFiles[i])
RobotoListed == {RobotoWeightAt(i) : i \in RobotoKeys}
RobotoPosition(w) == SetMin({i \in RobotoKeys : RobotoWeightAt(i) = w})
RobotoChoice(weight) ==
    IF weight \in RobotoListed THEN weight
    ELSE LET near == {w \in RobotoListed : Abs(w - weight) <= 200}
         IN  IF near = {} THEN 0
             ELSE CHOOSE w \in near :
                     \A v \in near :
                        \/ Abs(w - weight) < Abs(v - weight)
                        \/ /\ Abs(w - weight) = Abs(v - weight)
                           /\ RobotoPosition(w) <= RobotoPosition(v)
DefaultWeight(weight) == IF weight >= 600 THEN 700 ELSE 400

\* The claim as stated: a family missing from the catalog after the refresh
\* is answered by Roboto at 700 for a weight of 600 or more and at 400
\* otherwise.
C13_MissingFamilyGetsRoboto400Or700 ==
    FamilyMissing =>
        /\ Load.outcome.kind = "path"
        /\ Delivered = [family |-> "Roboto", weight |-> DefaultWeight(Load.font_weight)]

\* C13: for a call that no other call overlaps in time: when the requested
\* family is missing from the catalog after the refresh, a call that
\* returns a path delivers Roboto: at the requested
\* weight if Roboto lists it, else at Roboto's nearest listed upright weight
\* within 200, stored under the requested family's own file name; only when
\* Roboto has no weight within 200 does the call answer with Roboto at 700
\* (weight >= 600) or 400: the bundled file, or the file a nested call for
\* ("Roboto", 700 or 400) resolves to (an existing FONT_DIR/Roboto-700.ttf or
\* Roboto-400.ttf, else a download by the same rule).  The call raises
\* ValueError when the catalog has no Roboto, the download's error when the
\* download fails, and RecursionError when there is neither a bundled file,
\* nor such a Roboto file, nor a Roboto weight within 200 of 700 or 400.
C13_MissingFamilyGetsRobotoNearest ==
    FamilyMissing =>
        LET weight == Load.font_weight
            fallback == DefaultWeight(weight)
        IN  IF ~HasFamily(CatalogNow, "Roboto") THEN Load.outcome.kind = "ValueError"
            ELSE IF RobotoChoice(weight) # 0
            THEN \/ /\ Load.outcome.kind = "path"
                    /\ Load.outcome.path.dir = "FONT_DIR"
                    /\ Load.outcome.path.safe_name = SafeName(Load.font_name)
                    /\ Load.outcome.path.weight = weight
                    /\ Delivered = [family |-> "Roboto", weight |-> RobotoChoice(weight)]
                 \/ Load.outcome.kind = "RequestException" /\ ~Load.net.download_ok
            ELSE IF fallback \in bundled_fonts
            THEN /\ Load.outcome.kind = "path"
                 /\ Load.outcome.path = [dir |-> "fonts", safe_name |-> "Roboto",
                                         weight |-> fallback]
            ELSE IF \E f \in Load.dir_before :
                       f.path = [dir |-> "FONT_DIR", safe_name |-> "Roboto",
                                 weight |-> fallback]
            THEN /\ Load.outcome.kind = "path"
                 /\ Load.outcome.path = [dir |-> "FONT_DIR", safe_name |-> "Roboto",
                                         weight |-> fallback]
                 /\ Load.downloads = <<>>
            ELSE IF RobotoChoice(fallback) # 0
            THEN \/ /\ Load.outcome.kind = "path"
                    /\ Load.outcome.path = [dir |-> "FONT_DIR", safe_name |-> "Roboto",
                                            weight |-> fallback]
                    /\ Delivered = [family |-> "Roboto", weight |-> RobotoChoice(fallback)]
                 \/ Load.outcome.kind = "RequestException" /\ ~Load.net.download_ok
            ELSE Load.outcome.kind = "RecursionError"

\* A call for a family the catalog does not have, at weight 900, that
\* delivers Roboto 900 under the family's own file name.
C13_Witness ==
    /\ FamilyMissing
    /\ Load.font_weight = 900
    /\ Load.refreshes = 1
    /\ Load.outcome.kind = "path"
    /\ Load.outcome.path.safe_name = "UnlistedGrotesk"
    /\ Delivered = [family |-> "Roboto", weight |-> 900]

\* The file of the latest request, FONT_DIR/<safe name>-<weight>.ttf, was
\* there when the call began; an earlier call of the run returned a path
\* for the same request.
RequestFile ==
    [dir |-> "FONT_DIR", safe_name |-> SafeName(Load.font_name),
     weight |-> Load.font_weight]
StoredBefore == Alone /\ \E f \in Load.dir_before : f.path = RequestFile
ResolvedBefore ==
    {r \in Load.resolved_before :
        r.font_name = Load.font_name /\ r.font_weight = Load.font_weight}

\* The claim as stated: after the first call that returned a path for a
\* request, every later call with that request returns the same path,
\* downloads nothing and sends no catalog request.
C14_MemoizedAfterFirstSuccess ==
    Alone =>
        \A r \in ResolvedBefore :
            /\ Load.outcome.kind = "path" /\ Load.outcome.path = r.path
            /\ Load.downloads = <<>>
            /\ Load.requests = 0

\* C14: among calls that do not overlap in time, a file of FONT_DIR is
\* downloaded at most once: a call downloads at most one file, only to a
\* path that does not exist yet, and removes none; once the file of a
\* request exists, every call with that request returns its path and
\* downloads nothing, and it leaves the catalog alone when the catalog file
\* exists, while with the catalog file missing it first makes one refresh
\* attempt.
C14_StoredFileMemoized ==
    Alone =>
        /\ Len(Load.downloads) <= 1
        /\ \A i \in 1..Len(Load.downloads) :
              ~\E f \in Load.dir_before : f.path = Load.downloads[i].path
        /\ Load.dir_before \subseteq Load.font_dir
        /\ StoredBefore =>
              /\ Load.outcome = [kind |-> "path", path |-> RequestFile]
              /\ Load.downloads = <<>>
              /\ Load.font_dir = Load.dir_before
              /\ Load.cache_before.present =>
                    /\ Load.refreshes = 0 /\ Load.requests = 0
                    /\ Load.cache_file = Load.cache_before
              /\ ~Load.cache_before.present => Load.refreshes = 1

\* The second call of a run repeats a request whose file the first call
\* downloaded, and returns that file.
C14_Witness ==
    /\ StoredBefore
    /\ Load.n = 2
    /\ \E r \in ResolvedBefore : r.path = RequestFile
    /\ Load.outcome = [kind |-> "path", path |-> RequestFile]
    /\ Load.refreshes = 0

\* =====================================================================
\* google_fonts_runtime_loader.py: several runs inside get_font_path at the
\* same time, sharing the catalog file
\* =====================================================================

\* f.write of some bytes at a file offset: the file grows to the offset
\* first, and the bytes replace what was at their place.
WriteAt(text, offset, extent) ==
    Joined(FirstBytes(text, offset)
           \o (IF FileSize(text) < offset THEN <<Hole(offset - FileSize(text))>> ELSE <<>>)
           \o <<extent>>
           \o SkipBytes(text, offset + Size(extent)))

\* The catalogs the web-fonts API may reply with while the runs are active.
LiveCatalogs == <<RemoteThin, RemoteNoRoboto, RemoteWide>>

\* The families the runs ask for: one the catalogs list, and one they do not.
RunFamilies == {"Lato", "Unlisted Grotesk"}

\* Each run is at the first line of get_font_path; the font file it asks
\* for is not in FONT_DIR.  The catalog file is missing or complete.
InitRefresh ==
    /\ prog = "refresh" /\ pc = "ready"
    /\ cache_file \in {[present |-> FALSE, text |-> <<>>],
                       [present |-> TRUE, text |-> JsonDump(RemoteSparse)]}
    /\ procs \in [1..NumRuns ->
                    [pc : {"line54"}, font_name : RunFamilies, return_to : {""},
                     data : {0}, offset : {0}, outcome : {""}]]
    /\ font_dir = {} /\ bundled_fonts = {} /\ resolved = {} /\ loads = <<>>
    /\ InitLayeredIdle /\ InitMaskIdle /\ InitFontIdle /\ InitRenderIdle /\ InitRunIdle /\ InitFilterIdle

RefreshFrame ==
    UNCHANGED <<prog, pc, layered_vars, mask_vars, font_vars, font_dir, bundled_fonts,
                resolved, loads, render_vars, run_vars, filter_vars>>

\* Lines 54-55: fetch the catalog if the file does not exist.
Line54 ==
    /\ prog = "refresh"
    /\ \E p \in 1..NumRuns :
          /\ procs[p].pc = "line54"
          /\ procs' = [procs EXCEPT ![p].pc = IF cache_file.present THEN "line63"
                                              ELSE "line35",
                                    ![p].return_to = "line63"]
    /\ UNCHANGED cache_file
    /\ RefreshFrame

\* Lines 35-40 of fetch_full_google_fonts_cache: the request fails (the
\* exception is caught at line 45 and the function returns), or replies with
\* a catalog.
RequestCatalog ==
    /\ prog = "refresh"
    /\ \E p \in 1..NumRuns, reply \in 0..Len(LiveCatalogs) :
          /\ procs[p].pc = "line35"
          /\ procs' = [procs EXCEPT ![p].pc = IF reply = 0 THEN procs[p].return_to
                                              ELSE "line42",
                                    ![p].data = reply]
    /\ UNCHANGED cache_file
    /\ RefreshFrame

\* Line 42: open(GOOGLE_FONTS_CACHE, "w") creates the file or truncates it.
OpenForWriting ==
    /\ prog = "refresh"
    /\ \E p \in 1..NumRuns :
          /\ procs[p].pc = "line42"
          /\ procs' = [procs EXCEPT ![p].pc = "line43", ![p].offset = 0]
    /\ cache_file' = [present |-> TRUE, text |-> <<>>]
    /\ RefreshFrame

\* Line 43: the next write of json.dump, at the run's own file offset (the
\* bytes of the text from the offset to the end of that write); the last
\* one is made when the file is closed.
DumpChunk ==
    /\ prog = "refresh"
    /\ \E p \in 1..NumRuns :
          /\ procs[p].pc = "line43"
          /\ \E dump \in {Dumped(LiveCatalogs[procs[p].data])} :
             \E end \in {dump.ends[k] : k \in 1..Len(dump.ends)} :
                /\ end > procs[p].offset
                /\ \A k \in 1..Len(dump.ends) :
                      dump.ends[k] > procs[p].offset => dump.ends[k] >= end
                /\ cache_file' =
                      [cache_file EXCEPT
                          !.text = WriteAt(@, procs[p].offset,
                                           Extent(LiveCatalogs[procs[p].data],
                                                  procs[p].offset + 1, end))]
                /\ procs' = [procs EXCEPT ![p].offset = end,
                                          ![p].pc = IF end = Len(dump.text)
                                                    THEN procs[p].return_to
                                                    ELSE "line43"]
    /\ RefreshFrame

\* Lines 63-64: no catalog file, ValueError.
Line63 ==
    /\ prog = "refresh"
    /\ \E p \in 1..NumRuns :
          /\ procs[p].pc = "line63"
          /\ procs' = IF cache_file.present
                      THEN [procs EXCEPT ![p].pc = "line66"]
                      ELSE [procs EXCEPT ![p].pc = "done", ![p].outcome = "ValueError"]
    /\ UNCHANGED cache_file
    /\ RefreshFrame

\* Lines 66-72: json.load of the file as it is now; a family that is not in
\* it sends the run to the refresh.
Line66 ==
    /\ prog = "refresh"
    /\ \E p \in 1..NumRuns :
          /\ procs[p].pc = "line66"
          /\ procs' =
                IF ~JsonValid(cache_file.text)
                THEN [procs EXCEPT ![p].pc = "done", ![p].outcome = "JSONDecodeError"]
                ELSE IF HasFamily(JsonLoad(cache_file.text), procs[p].font_name)
                THEN [procs EXCEPT ![p].pc = "done", ![p].outcome = "loaded"]
                ELSE [procs EXCEPT ![p].pc = "line35", ![p].return_to = "line73"]
    /\ UNCHANGED cache_file
    /\ RefreshFrame

\* Lines 73-88: json.load after the refresh; the family, or Roboto, or
\* ValueError.
Line73 ==
    /\ prog = "refresh"
    /\ \E p \in 1..NumRuns :
          /\ procs[p].pc = "line73"
          /\ procs' =
                IF ~JsonValid(cache_file.text)
                THEN [procs EXCEPT ![p].pc = "done", ![p].outcome = "JSONDecodeError"]
                ELSE IF \/ HasFamily(JsonLoad(cache_file.text), procs[p].font_name)
                        \/ HasFamily(JsonLoad(cache_file.text), "Roboto")
                THEN [procs EXCEPT ![p].pc = "done", ![p].outcome = "loaded"]
                ELSE [procs EXCEPT ![p].pc = "done", ![p].outcome = "ValueError"]
    /\ UNCHANGED cache_file
    /\ RefreshFrame

\* ---------------------------------------------------------------------
\* Properties of the concurrent catalog refresh
\* ---------------------------------------------------------------------

\* A run is between open(..., "w") and the close of the catalog file.
Writing(p) == procs[p].pc = "line43"
AllDone == \A p \in 1..NumRuns : procs[p].pc = "done"
CompleteCatalogs ==
    {Dumped(RemoteSparse).text}
        \cup {Dumped(LiveCatalogs[k]).text : k \in 1..Len(LiveCatalogs)}

\* C15: no run's json.load meets a partially written or truncated catalog
\* file, and once every run has finished the file, if there is one, holds
\* one complete catalog.
C15_RefreshSafe ==
    prog = "refresh" =>
        /\ \A p \in 1..NumRuns : procs[p].outcome # "JSONDecodeError"
        /\ AllDone /\ cache_file.present => Bytes(cache_file.text) \in CompleteCatalogs

\* A run's json.load failed on the file another run had truncated and not
\* yet written in full.
C15_Witness ==
    /\ prog = "refresh"
    /\ \E p, q \in 1..NumRuns :
          /\ p # q
          /\ procs[p].outcome = "JSONDecodeError"
          /\ Writing(q)
          /\ ~JsonValid(cache_file.text)

\* =====================================================================
\* run_pipeline_text_rendering.py: render_text_layer
\* =====================================================================

\* A region of report_data["text_detection"]["regions"]: its bbox in the
\* coordinates of the original image and its gemini_analysis (absent or
\* empty: present = FALSE; role = None: the dict has no "role" key).
TextRegion(id, x, y, width, height, present, role, text) ==
    [id |-> id, bbox |-> [x |-> x, y |-> y, width |-> width, height |-> height],
     gemini_analysis |-> [present |-> present, role |-> role, text |-> text]]

\* A variant of the grouping test that takes every analysed region, whatever
\* its role.
GroupedAnyRole(region) == region.gemini_analysis.present

\* Lines 142-146: the role a region is grouped under, and whether it is
\* grouped at all.
RenderableRoles == {"heading", "subheading", "body", "cta", "usp", "label"}
GroupRole(region) ==
    IF region.gemini_analysis.role = None THEN "body" ELSE region.gemini_analysis.role
Grouped(region) ==
    region.gemini_analysis.present /\ GroupRole(region) \in RenderableRoles

\* Lines 140-150: role_groups, a dict in insertion order: the roles in the
\* order of their first region, each with its regions in input order.
RECURSIVE RoleGroups(_)
RoleGroups(region_list) ==
    IF Len(region_list) = 0 THEN <<>>
    ELSE LET region == region_list[Len(region_list)]
             before == RoleGroups(SubSeq(region_list, 1, Len(region_list) - 1))
             hit == {g \in 1..Len(before) : before[g].role = GroupRole(region)}
         IN  IF ~Grouped(region) THEN before
             ELSE IF hit = {}
             THEN Append(before, [role |-> GroupRole(region), regions |-> <<region>>])
             ELSE [before EXCEPT ![CHOOSE g \in hit : TRUE].regions = Append(@, region)]

\* list.sort(key=lambda r: r["bbox"][axis]): a stable sort; an element goes
\* behind the elements whose key is not larger.
RECURSIVE SortOnBbox(_, _)
SortOnBbox(list, axis) ==
    IF Len(list) = 0 THEN <<>>
    ELSE LET last == list[Len(list)]
             sorted == SortOnBbox(SubSeq(list, 1, Len(list) - 1), axis)
             keep == Cardinality({i \in 1..Len(sorted) :
                                     sorted[i].bbox[axis] <= last.bbox[axis]})
         IN  SubSeq(sorted, 1, keep) \o <<last>> \o SubSeq(sorted, keep + 1, Len(sorted))

\* A variant of the line test that compares a region with the line member
\* added last instead of the one added first.
LastMember(line) == line[Len(line)]

\* Line 169: the member of a line a new region is compared with.
Reference(line) == line[1]

\* Lines 163-177: abs(r_center - l_center) < avg_h * 0.5 with
\* center = y + height / 2 and avg_h = (r_h + l_h) / 2, all times four.
Aligned(r, l_r) ==
    Abs((4 * r.bbox.y + 2 * r.bbox.height) - (4 * l_r.bbox.y + 2 * l_r.bbox.height))
        < r.bbox.height + l_r.bbox.height

\* Lines 160-184 for one region: it is appended to the first line whose
\* reference it is aligned with, or becomes a new last line.
Place(lines, r) ==
    LET hit == {i \in 1..Len(lines) : Aligned(r, Reference(lines[i]))}
    IN  IF hit = {} THEN Append(lines, <<r>>)
        ELSE [lines EXCEPT ![SetMin(hit)] = Append(@, r)]

\* Lines 158-184: the lines of one role group, already sorted on y.
RECURSIVE Cluster(_)
Cluster(group_regions) ==
    IF Len(group_regions) = 0 THEN <<>>
    ELSE Place(Cluster(SubSeq(group_regions, 1, Len(group_regions) - 1)),
               group_regions[Len(group_regions)])

\* A variant of the join that puts nothing between the texts.
RECURSIVE JoinBare(_)
JoinBare(texts) ==
    IF Len(texts) = 0 THEN <<>>
    ELSE JoinBare(SubSeq(texts, 1, Len(texts) - 1)) \o texts[Len(texts)]

\* Line 194: " ".join(texts)
RECURSIVE Join(_)
Join(texts) ==
    IF Len(texts) = 0 THEN <<>>
    ELSE IF Len(texts) = 1 THEN texts[1]
    ELSE Join(SubSeq(texts, 1, Len(texts) - 1)) \o <<" ">> \o texts[Len(texts)]

\* Lines 198-204: the union box of a line, as its four edges.
UnionBox(line) ==
    [min_x |-> SetMin({line[i].bbox.x : i \in 1..Len(line)}),
     min_y |-> SetMin({line[i].bbox.y : i \in 1..Len(line)}),
     max_x |-> SetMax({line[i].bbox.x + line[i].bbox.width : i \in 1..Len(line)}),
     max_y |-> SetMax({line[i].bbox.y + line[i].bbox.height : i \in 1..Len(line)})]

\* ------------------------------------------------ font sizing of a line
\* What Pillow measures for a text set in a face at a size: the glyph
\* height bbox[3] - bbox[1] grows with the size and is a whole number of
\* pixels, and the width right - left is the sum of the glyphs' advances,
\* each a whole number of pixels.
TextHeight(face, text, size) == (size * face.h_num + face.h_den - 1) \div face.h_den
TextWidth(face, text, size) ==
    Len(text) * ((2 * size * face.adv_num + face.adv_den) \div (2 * face.adv_den))

\* ImageFont.load_default(): Pillow's built-in bitmap font, six pixels a
\* character.
DefaultWidth(text) == 6 * Len(text)

\* A variant of the loop that accepts a size only if its height is strictly
\* below the target.
RECURSIVE SearchStrict(_, _, _, _, _, _)
SearchStrict(text, face, target, low, high, best) ==
    IF low > high THEN best
    ELSE LET mid == (low + high) \div 2
             text_height == IF face.measurable THEN TextHeight(face, text, mid) ELSE mid
         IN  IF FloatLess(FloatOf(text_height), target)
             THEN SearchStrict(text, face, target, mid + 1, high, mid)
             ELSE SearchStrict(text, face, target, low, mid - 1, best)

\* Lines 234-249: the while loop of find_best_font_size.  target is the
\* float target_height; a face whose getbbox raises counts as height mid.
RECURSIVE Search(_, _, _, _, _, _)
Search(text, face, target, low, high, best) ==
    IF low > high THEN best
    ELSE LET mid == (low + high) \div 2
             text_height == IF face.measurable THEN TextHeight(face, text, mid) ELSE mid
         IN  IF FloatLeq(FloatOf(text_height), target)
             THEN Search(text, face, target, mid + 1, high, mid)
             ELSE Search(text, face, target, low, mid - 1, best)

\* find_best_font_size(text, font_path, target_height), lines 225-251
find_best_font_size(text, face, target_height) ==
    Search(text, face, target_height, 1, 2000, 1)

\* Lines 281-282: int(font_size * (width_limit / text_w)), the quotient
\* and the product rounded as floats before int() cuts the fraction off.
Downscaled(font_size, width_limit, text_w) ==
    FloatInt(FloatMul(FloatOf(font_size), FloatDivInt(width_limit, text_w)))

\* Lines 130-131 and 209-210: w = orig_u_w * sx and h = orig_u_h * sy with
\* sx = img_w / ORIG_W and sy = img_h / ORIG_H, the canvas being the
\* original image divided by scale_den.
OnCanvas(v, scale_den) == FloatMul(FloatOf(v), FloatDiv(1, scale_den))

\* Line 258: target_height = h * 0.95
TargetHeight(h) == FloatMul(h, FloatDiv(19, 20))

\* Line 278: width_limit = w * 1.1 for a heading, w otherwise.
WidthLimit(is_heading, w) == IF is_heading THEN FloatMul(w, FloatDiv(11, 10)) ELSE w

\* Lines 263-287, from the font that ImageFont.truetype is last asked for:
\* a face that cannot be loaded or measured, and a size of 0, end in the
\* except branch of line 285, the default font.
FontAt(combined_text, face, fit, text_w, font_size) ==
    LET default == [kind |-> "default", size |-> 0, fit |-> 0, text_w |-> 0,
                    width |-> DefaultWidth(combined_text)]
    IN  IF ~face.loadable THEN default
        ELSE IF ~face.measurable THEN [default EXCEPT !.fit = fit]
        ELSE IF font_size = 0 THEN [default EXCEPT !.fit = fit, !.text_w = text_w]
        ELSE [kind |-> "truetype", size |-> font_size, fit |-> fit, text_w |-> text_w,
              width |-> TextWidth(face, combined_text, font_size)]

\* Lines 279-283: a text wider than the limit is scaled down.
Limited(combined_text, face, fit, text_w, width_limit) ==
    FontAt(combined_text, face, fit, text_w,
           IF FloatLess(width_limit, FloatOf(text_w))
           THEN Downscaled(fit, width_limit, text_w)
           ELSE fit)

\* Lines 263-273: the text is measured at the size that fits the height.
Measured(combined_text, face, fit, width_limit) ==
    Limited(combined_text, face, fit, TextWidth(face, combined_text, fit), width_limit)

\* Lines 253-287 for one line of a role: the font the line is drawn with.
\* u_w and u_h are the width and height of the union box.  get_font_path
\* raising, the measurement raising and ImageFont.truetype(font_path, 0)
\* raising all end in the except branch of line 285: the default font.
SizeLine(role, combined_text, u_w, u_h, face, scale_den) ==
    Measured(combined_text, face,
             find_best_font_size(combined_text, face,
                                 TargetHeight(OnCanvas(u_h, scale_den))),
             WidthLimit(role \in {"heading", "hero_text"}, OnCanvas(u_w, scale_den)))

\* Lines 188-326 for one clustered line: nothing if its text is blank, else
\* the draw.text call.
RenderLine(role, cluster, face, scale_den) ==
    LET line == SortOnBbox(cluster, "x")
        texts == [i \in 1..Len(line) |-> line[i].gemini_analysis.text]
        combined_text == Join(texts)
        box == UnionBox(line)
    IN  IF Strip(combined_text) = <<>> THEN <<>>
        ELSE <<[role |-> role, line |-> [i \in 1..Len(line) |-> line[i].id],
                combined_text |-> combined_text, box |-> box,
                loaded |-> face.loadable,
                font |-> SizeLine(role, combined_text, box.max_x - box.min_x,
                                  box.max_y - box.min_y, face, scale_den)]>>

\* Lines 153-185: the lines of every role group, as clustered.
ClusterGroups(region_list) ==
    LET role_groups == RoleGroups(region_list)
    IN  [g \in 1..Len(role_groups) |->
            [role |-> role_groups[g].role,
             lines |-> Cluster(SortOnBbox(role_groups[g].regions, "y"))]]

\* Lines 154 and 188: the lines in the order the two loops reach them, each
\* with its role and the number of its group.
RECURSIVE LineList(_)
LineList(groups) ==
    IF Len(groups) = 0 THEN <<>>
    ELSE LET g == Len(groups)
         IN  LineList(SubSeq(groups, 1, g - 1))
                 \o [l \in 1..Len(groups[g].lines) |->
                        [role |-> groups[g].role, cluster |-> groups[g].lines[l],
                         group |-> g]]

\* Lines 215-217: the request of a line, gemini.get("primary_font", "Roboto")
\* and gemini.get("font_weight", 400) of its first token; the analyses of
\* the model's regions have neither key.
LineFont(cluster) == [font_name |-> "Roboto", font_weight |-> 400]

\* Lines 254-287: the face a line is sized with: loadable if get_font_path
\* returned a path, and with the metrics Pillow has for the run's font.
Opened(face, outcome) ==
    [loadable |-> outcome.kind = "path", measurable |-> face.measurable,
     h_num |-> face.h_num, h_den |-> face.h_den,
     adv_num |-> face.adv_num, adv_den |-> face.adv_den]

\* Lines 188-326 from the k-th line on, up to the first get_font_path call
\* that waits for the network, or to the end of the loops: the draw.text
\* calls made, the call that waits (`waiting`), and the latest call that
\* ended (`ended`).  A call that does not wait changes no file.
RECURSIVE RenderFrom(_, _, _, _)
FontPathOf(lines, k, drawn, ended, st) ==
    IF st.at # "done"
    THEN [draw_calls |-> drawn, waiting |-> <<st>>, ended |-> ended]
    ELSE RenderFrom(lines, k + 1,
                    drawn \o RenderLine(lines[k].role, lines[k].cluster,
                                        Opened(font_face, st.outcome), canvas.scale_den),
                    <<[st EXCEPT !.ended = IF ended = <<>> THEN 1 ELSE ended[1].ended + 1]>>)
RenderFrom(lines, k, drawn, ended) ==
    IF k > Len(lines) THEN [draw_calls |-> drawn, waiting |-> <<>>, ended |-> ended]
    ELSE IF Strip(Join([i \in 1..Len(lines[k].cluster) |->
                           lines[k].cluster[i].gemini_analysis.text])) = <<>>
    THEN RenderFrom(lines, k + 1, drawn, ended)
    ELSE FontPathOf(lines, k, drawn, ended,
                    get_font_path(NewCall(k, LineFont(lines[k].cluster).font_name,
                                          LineFont(lines[k].cluster).font_weight),
                                  font_face.net))

\* The groups clustered when the loops stand at the k-th line (line 154
\* clusters a group before its lines are rendered).
ClusteredAt(groups, k) ==
    LET lines == LineList(groups)
    IN  IF k > Len(lines) THEN groups ELSE SubSeq(groups, 1, lines[k].group)

\* ------------------------------------------------ inputs of the renderer
T_SUMMER == <<"S", "U", "M", "M", "E", "R">>
T_NOW == <<"N", "O", "W">>
T_50 == <<"5", "0">>
T_R == <<"R">>

\* Regions a report may list: headings on one row, on the row's threshold
\* and between two rows, a small mark, body text with and without a role
\* key (the latter narrower than its text at the height-fitted size), a
\* logo, a region without analysis, a blank heading, two body regions too
\* low and too narrow for any font size, and a body region half as wide as
\* its text at the height-fitted size.
RegionPool ==
    {TextRegion(1, 50, 200, 500, 80, TRUE, "heading", T_SUMMER),
     TextRegion(2, 560, 200, 300, 80, TRUE, "heading", T_SALE),
     TextRegion(3, 300, 240, 200, 80, TRUE, "heading", T_NOW),
     TextRegion(4, 20, 230, 100, 80, TRUE, "heading", T_50),
     TextRegion(5, 400, 260, 120, 80, TRUE, "heading", <<>>),
     TextRegion(6, 50, 215, 40, 10, TRUE, "heading", T_R),
     TextRegion(7, 50, 400, 600, 40, TRUE, "body", T_SALE),
     TextRegion(8, 660, 405, 50, 40, TRUE, None, T_NOW),
     TextRegion(9, 0, 0, 100, 50, TRUE, "logo", T_BRAND),
     TextRegion(10, 50, 201, 500, 80, FALSE, None, <<>>),
     TextRegion(11, 600, 600, 50, 40, TRUE, "heading", T_BLANK),
     TextRegion(12, 700, 500, 3, 1, TRUE, "body", T_R),
     TextRegion(13, 50, 600, 4, 40, TRUE, "body", T_SUMMER),
     TextRegion(14, 100, 800, 200, 80, TRUE, "body", T_SUMMER)}

\* The fonts of a run.  The metrics Pillow has for the font file: capital
\* height 7/10 of the size with advances of 11/20 of it; height equal to the
\* size with advances of half of it; a file whose measurement raises.  The
\* files the run finds and its network: the catalog and Roboto-400.ttf
\* stored by an earlier run; nothing stored and a network that serves both;
\* nothing stored and no API key; nothing stored and downloads that fail.
Metrics ==
    {[measurable |-> TRUE, h_num |-> 7, h_den |-> 10, adv_num |-> 11, adv_den |-> 20],
     [measurable |-> TRUE, h_num |-> 1, h_den |-> 1, adv_num |-> 1, adv_den |-> 2],
     [measurable |-> FALSE, h_num |-> 1, h_den |-> 1, adv_num |-> 1, adv_den |-> 2]}
Served == [api_key |-> TRUE, reply |-> 1, download_ok |-> TRUE]
NoKey == [api_key |-> FALSE, reply |-> 0, download_ok |-> FALSE]
NoDownload == [api_key |-> TRUE, reply |-> 1, download_ok |-> FALSE]
Unmeasured == CHOOSE m \in Metrics : ~m.measurable
Faces ==
    {[stored |-> stored, measurable |-> m.measurable, h_num |-> m.h_num,
      h_den |-> m.h_den, adv_num |-> m.adv_num, adv_den |-> m.adv_den, net |-> Served] :
        stored \in BOOLEAN, m \in Metrics}
    \cup {[stored |-> FALSE, measurable |-> Unmeasured.measurable,
           h_num |-> Unmeasured.h_num, h_den |-> Unmeasured.h_den,
           adv_num |-> Unmeasured.adv_num, adv_den |-> Unmeasured.adv_den, net |-> net] :
            net \in {NoKey, NoDownload}}

\* The files of FONT_DIR and the catalog file a run with a face finds.
StoredFonts(face) ==
    /\ cache_file = IF face.stored THEN [present |-> TRUE, text |-> JsonDump(CatalogA)]
                    ELSE [present |-> FALSE, text |-> <<>>]
    /\ font_dir = IF face.stored
                  THEN {[path |-> LocalPath("Roboto", 400), family |-> "Roboto",
                         variant |-> V_regular]}
                  ELSE {}
    /\ bundled_fonts = {} /\ resolved = {} /\ loads = <<>> /\ procs = <<>>

\* The canvas is as large as the original image, or half as large.
InitRender ==
    /\ prog = "render" /\ pc = "render_text_layer"
    /\ \E list \in SeqsUpTo(RegionPool, MaxTokens) :
          Distinct(list) /\ report_data = list
    /\ canvas \in {[scale_den |-> 1], [scale_den |-> 2]}
    /\ \E face \in Faces :
          /\ font_face = [measurable |-> face.measurable, h_num |-> face.h_num,
                          h_den |-> face.h_den, adv_num |-> face.adv_num,
                          adv_den |-> face.adv_den, net |-> face.net]
          /\ StoredFonts(face)
    /\ text_lines = <<>> /\ draw_calls = <<>>
    /\ InitLayeredIdle /\ InitMaskIdle /\ InitFontIdle
    /\ InitRunIdle /\ InitFilterIdle

\* What a step of render_text_layer leaves: the groups clustered and the
\* lines drawn so far, and the get_font_path call it waits for, if any.
RenderStep(groups, run) ==
    /\ text_lines' = IF run.waiting = <<>> THEN groups
                     ELSE ClusteredAt(groups, run.waiting[1].n)
    /\ draw_calls' = run.draw_calls
    /\ procs' = run.waiting
    /\ loads' = run.ended
    /\ UNCHANGED <<cache_file, font_dir, bundled_fonts, resolved>>

\* render_text_layer(base_image, report_data), lines 100-328, up to its
\* first wait inside get_font_path (line 254).
RenderTextLayer ==
    /\ prog = "render" /\ pc = "render_text_layer"
    /\ \E groups \in {ClusterGroups(report_data)} :
       \E run \in {RenderFrom(LineList(groups), 1, <<>>, loads)} :
           /\ RenderStep(groups, run)
           /\ pc' = IF run.waiting = <<>> THEN "save" ELSE "get_font_path"
    /\ UNCHANGED <<prog, layered_vars, mask_vars, font_vars,
                   report_data, canvas, font_face, run_vars, filter_vars>>

\* ------------------------------------------------ properties of the renderer
Rendered == prog = "render" /\ pc = "save"

\* Four times the distance of the vertical centres of two regions, and four
\* times the threshold 0.5 * (height + height) / 2.
CentreGap4(r, f) ==
    LET d == (4 * r.bbox.y + 2 * r.bbox.height) - (4 * f.bbox.y + 2 * f.bbox.height)
    IN  IF d < 0 THEN 0 - d ELSE d
Threshold4(r, f) == r.bbox.height + f.bbox.height

\* The position of a region in the report, and the order regions are taken
\* in: ascending top y, regions of equal y in report order.
ReportIndex(r) == CHOOSE i \in 1..Len(report_data) : report_data[i].id = r.id
TakenBefore(a, b) ==
    \/ a.bbox.y < b.bbox.y
    \/ a.bbox.y = b.bbox.y /\ ReportIndex(a) < ReportIndex(b)

\* C16: in the clustering of render_text_layer the regions of a role group
\* are taken in ascending top-y order; a region that joined a line is within
\* the threshold of that line's first inserted member and outside the
\* threshold of the first member of every earlier line; a region that
\* started a line is outside the threshold of the first member of every
\* earlier line (so no region is merged at a difference >= the threshold,
\* and members added later never change what a line is compared by).
C16_JoinsFirstLineByFirstMember ==
    Rendered =>
        \A g \in 1..Len(text_lines) :
            LET lines == text_lines[g].lines
            IN  \A l \in 1..Len(lines) :
                    /\ \A m \in 2..Len(lines[l]) :
                          /\ CentreGap4(lines[l][m], lines[l][1])
                                < Threshold4(lines[l][m], lines[l][1])
                          /\ TakenBefore(lines[l][m - 1], lines[l][m])
                    /\ \A k \in 1..(l - 1) :
                          /\ TakenBefore(lines[k][1], lines[l][1])
                          /\ \A m \in 1..Len(lines[l]) :
                                CentreGap4(lines[l][m], lines[k][1])
                                    >= Threshold4(lines[l][m], lines[k][1])

\* C16 witness: a line of two members, and a later line started by a region
\* that is within the threshold of the earlier line's second member and
\* exactly on the threshold of its first.
C16_Witness ==
    /\ Rendered
    /\ \E g \in 1..Len(text_lines) :
          LET lines == text_lines[g].lines
          IN  \E k, l \in 1..Len(lines) :
                  /\ k < l /\ Len(lines[k]) >= 2
                  /\ CentreGap4(lines[l][1], lines[k][2]) < Threshold4(lines[l][1], lines[k][2])
                  /\ CentreGap4(lines[l][1], lines[k][1]) = Threshold4(lines[l][1], lines[k][1])

\* The places of the clustered lines: group, line and position in the line.
LinePlaces ==
    {p \in (1..MaxTokens) \X (1..MaxTokens) \X (1..MaxTokens) :
        /\ p[1] <= Len(text_lines)
        /\ p[2] <= Len(text_lines[p[1]].lines)
        /\ p[3] <= Len(text_lines[p[1]].lines[p[2]])}
RegionAt(p) == text_lines[p[1]].lines[p[2]][p[3]]

\* C17: after clustering the lines partition the renderable regions: every
\* region of the report that has an analysis and whose role (body when the
\* analysis names none) is heading, subheading, body, cta, usp or label is
\* at exactly one place of one line, every other region is at none, every
\* line has a member, and the members of a line have one role.
C17_LinesPartitionRenderable ==
    Rendered =>
        /\ \A i \in 1..Len(report_data) :
              Cardinality({p \in LinePlaces : RegionAt(p) = report_data[i]})
                  = IF /\ report_data[i].gemini_analysis.present
                       /\ GroupRole(report_data[i]) \in
                             {"heading", "subheading", "body", "cta", "usp", "label"}
                    THEN 1 ELSE 0
        /\ \A p \in LinePlaces : \E i \in 1..Len(report_data) : RegionAt(p) = report_data[i]
        /\ \A g \in 1..Len(text_lines) :
              /\ Len(text_lines[g].lines) >= 1
              /\ \A l \in 1..Len(text_lines[g].lines) :
                    /\ Len(text_lines[g].lines[l]) >= 1
                    /\ \A m \in 1..Len(text_lines[g].lines[l]) :
                          GroupRole(text_lines[g].lines[l][m])
                              = GroupRole(text_lines[g].lines[l][1])

\* C17 witness: a report of three regions clustered into a line of two
\* members, the third region (a logo, or one without analysis) in no line.
C17_Witness ==
    /\ Rendered
    /\ Len(report_data) = 3
    /\ Cardinality(LinePlaces) = 2
    /\ \E p \in LinePlaces : p[3] = 2

\* The region of the report with a given id, and the text of its analysis.
RegionOf(id) == report_data[CHOOSE i \in 1..Len(report_data) : report_data[i].id = id]
TextOf(id) == RegionOf(id).gemini_analysis.text

\* Where the text of the k-th member starts in the text of a line: behind
\* the texts of the members before it and one character after each.
RECURSIVE StartOfText(_, _)
StartOfText(ids, k) ==
    IF k = 1 THEN 0 ELSE StartOfText(ids, k - 1) + Len(TextOf(ids[k - 1])) + 1

\* The clustered lines as sets of ids, the place of an id in its line, and
\* whether the texts of a line hold anything but spaces.
ClusteredLines ==
    {[role |-> text_lines[p[1]].role,
      ids |-> {RegionAt(q).id : q \in {q \in LinePlaces : q[1] = p[1] /\ q[2] = p[2]}}] :
        p \in LinePlaces}
InsertedAt(id) == CHOOSE p \in LinePlaces : RegionAt(p).id = id
HasInk(ids) == \E id \in ids : \E c \in 1..Len(TextOf(id)) : TextOf(id)[c] # " "

\* C18: every line that is drawn has its members in ascending x order
\* (members of equal x in the order they joined the line), its text is the
\* members' texts in that order with one space between neighbours, and its
\* box is the envelope of the members' boxes; the lines drawn are the
\* clustered lines with a text that is not blank.  The headings
\* (50,200,500,80) "SUMMER" and (560,200,300,80) "SALE" alone form the line
\* "SUMMER SALE" with the box (50,200)-(860,280).
C18_LineTextAndEnvelope ==
    Rendered =>
        /\ \A k \in 1..Len(draw_calls) :
              LET d == draw_calls[k]
                  ids == d.line
                  n == Len(ids)
              IN  /\ n >= 1
                  /\ [role |-> d.role, ids |-> {ids[i] : i \in 1..n}] \in ClusteredLines
                  /\ Cardinality({ids[i] : i \in 1..n}) = n
                  /\ \A i \in 1..(n - 1) :
                        \/ RegionOf(ids[i]).bbox.x < RegionOf(ids[i + 1]).bbox.x
                        \/ /\ RegionOf(ids[i]).bbox.x = RegionOf(ids[i + 1]).bbox.x
                           /\ InsertedAt(ids[i])[3] < InsertedAt(ids[i + 1])[3]
                  /\ Len(d.combined_text) = StartOfText(ids, n) + Len(TextOf(ids[n]))
                  /\ \A i \in 1..n :
                        /\ SubSeq(d.combined_text, StartOfText(ids, i) + 1,
                                  StartOfText(ids, i) + Len(TextOf(ids[i]))) = TextOf(ids[i])
                        /\ i > 1 => d.combined_text[StartOfText(ids, i)] = " "
                  /\ \A i \in 1..n :
                        LET b == RegionOf(ids[i]).bbox
                        IN  /\ d.box.min_x <= b.x /\ d.box.min_y <= b.y
                            /\ d.box.max_x >= b.x + b.width
                            /\ d.box.max_y >= b.y + b.height
                  /\ \E i \in 1..n : d.box.min_x = RegionOf(ids[i]).bbox.x
                  /\ \E i \in 1..n : d.box.min_y = RegionOf(ids[i]).bbox.y
                  /\ \E i \in 1..n :
                        d.box.max_x = RegionOf(ids[i]).bbox.x + RegionOf(ids[i]).bbox.width
                  /\ \E i \in 1..n :
                        d.box.max_y = RegionOf(ids[i]).bbox.y + RegionOf(ids[i]).bbox.height
        /\ \A i, j \in 1..Len(draw_calls) : i # j => draw_calls[i].line # draw_calls[j].line
        /\ Len(draw_calls) = Cardinality({c \in ClusteredLines : HasInk(c.ids)})
        /\ (\E i, j \in 1..Len(report_data) :
               /\ report_data[i] = TextRegion(1, 50, 200, 500, 80, TRUE, "heading", T_SUMMER)
               /\ report_data[j] = TextRegion(2, 560, 200, 300, 80, TRUE, "heading", T_SALE)
               /\ \A k \in 1..Len(report_data) :
                     k \notin {i, j} => ~Grouped(report_data[k])
                                          \/ GroupRole(report_data[k]) # "heading")
           => \E k \in 1..Len(draw_calls) :
                 /\ draw_calls[k].line = <<1, 2>>
                 /\ draw_calls[k].combined_text
                       = <<"S", "U", "M", "M", "E", "R", " ", "S", "A", "L", "E">>
                 /\ draw_calls[k].box = [min_x |-> 50, min_y |-> 200,
                                         max_x |-> 860, max_y |-> 280]

\* C18 witness: the report lists "SALE" before "SUMMER" and a third region;
\* the line drawn is "SUMMER SALE" with the box (50,200)-(860,280).
C18_Witness ==
    /\ Rendered
    /\ Len(report_data) = 3
    /\ report_data[1].id = 2 /\ report_data[2].id = 1
    /\ \E k \in 1..Len(draw_calls) :
          /\ draw_calls[k].line = <<1, 2>>
          /\ draw_calls[k].combined_text
                = <<"S", "U", "M", "M", "E", "R", " ", "S", "A", "L", "E">>
          /\ draw_calls[k].box.max_x = 860

\* The height find_best_font_size works with for a size: the measured
\* height, or the size itself when measuring raises (line 243); and whether
\* it is within h * 0.95 for a call's box (h = box height / scale_den).
HeightAt(d, size) ==
    IF font_face.measurable THEN TextHeight(font_face, d.combined_text, size) ELSE size
FitsHeight(d, size) ==
    20 * canvas.scale_den * HeightAt(d, size) <= 19 * (d.box.max_y - d.box.min_y)

\* The draw calls for which find_best_font_size was called: get_font_path
\* returned a path.
Sized == {k \in 1..Len(draw_calls) : draw_calls[k].loaded}

\* C19 as stated: for every target box height the size find_best_font_size
\* chooses has a measured height of at most the target height * 0.95.
C19_ChosenSizeFitsHeight ==
    Rendered => \A k \in Sized : FitsHeight(draw_calls[k], draw_calls[k].font.fit)

\* C19 amended: find_best_font_size returns a size in [1, 2000]; if size 1
\* is within target height * 0.95 it returns the largest size in [1, 2000]
\* that is, and otherwise it returns 1, whose height exceeds the target.
C19_LargestFittingSizeOrOne ==
    Rendered =>
        \A k \in Sized :
            LET d == draw_calls[k]
            IN  /\ d.font.fit \in 1..2000
                /\ IF FitsHeight(d, 1)
                   THEN /\ FitsHeight(d, d.font.fit)
                        /\ \A s \in 1..2000 : FitsHeight(d, s) => s <= d.font.fit
                   ELSE d.font.fit = 1

\* C19 witness: a size above 1 was chosen whose measured height is exactly
\* the target height * 0.95.
C19_Witness ==
    /\ Rendered
    /\ font_face.measurable
    /\ \E k \in Sized :
          LET d == draw_calls[k]
          IN  /\ d.font.fit > 1
              /\ 20 * canvas.scale_den * HeightAt(d, d.font.fit)
                    = 19 * (d.box.max_y - d.box.min_y)

\* Whether a width is within the limit of a call: the box width (canvas
\* scaled), times 1.1 for the roles "heading" and "hero_text".
WithinLimit(d, width) ==
    IF d.role \in {"heading", "hero_text"}
    THEN 10 * canvas.scale_den * width <= 11 * (d.box.max_x - d.box.min_x)
    ELSE canvas.scale_den * width <= d.box.max_x - d.box.min_x

\* C20 as stated: after the width adjustment no line is drawn wider than
\* its limit (the box width, 110% of it for a heading); the adjustment
\* never raises the size chosen by the height fit, and leaves it unchanged
\* when the measured width is within the limit.
C20_DrawnWidthWithinLimit ==
    Rendered =>
        \A k \in 1..Len(draw_calls) :
            LET d == draw_calls[k]
            IN  /\ WithinLimit(d, d.font.width)
                /\ d.font.kind = "truetype" =>
                      /\ d.font.size <= d.font.fit
                      /\ WithinLimit(d, d.font.text_w) => d.font.size = d.font.fit

\* C20 witness: a body line measured wider than its box at the height-fitted
\* size was scaled down once to a size of at least 1 and drawn in the
\* loaded font wider than the box by more than a pixel, although a smaller
\* size fits the box.
C20_Witness ==
    /\ Rendered
    /\ \E k \in 1..Len(draw_calls) :
          LET d == draw_calls[k]
          IN  /\ d.role = "body"
              /\ d.font.kind = "truetype"
              /\ ~WithinLimit(d, d.font.text_w)
              /\ d.font.size >= 1 /\ d.font.size < d.font.fit
              /\ ~WithinLimit(d, d.font.width - 1)
              /\ \E s \in 1..(d.font.size - 1) :
                    WithinLimit(d, TextWidth(font_face, d.combined_text, s))

\* =====================================================================
\* pipeline_v4/run_pipeline_v4.py : run_full_pipeline
\* (with composite_layers, draw_background_boxes and render_text_layer of
\* pipeline_v1/run_pipeline_text_rendering.py)
\* =====================================================================

\* An entry of report["layer_cleaning"]["layers_processed"] for the layer
\* file "<z>_layer_<z>.png", with the state of its cleaned file on disk:
\* "ok", "missing" (path.exists() is false) or "corrupt" (Image.open raises).
LayerEntry(z, file) == [original_layer |-> z, cleaned_layer |-> z, file |-> file]

\* Lines 23-46 of composite_layers over the first k entries of the sorted
\* list: the z-indices merged into base_img so far, bottom first, and
\* whether Image.open has raised (the loop ends there).
RECURSIVE MergeLayers(_, _)
MergeLayers(layers_info, k) ==
    IF k = 0 THEN [merged |-> <<>>, raised |-> FALSE]
    ELSE LET before == MergeLayers(layers_info, k - 1)
             layer == layers_info[k]
         IN  IF before.raised \/ layer.file = "missing" THEN before
             ELSE IF layer.file = "corrupt" THEN [before EXCEPT !.raised = TRUE]
             ELSE [before EXCEPT !.merged = Append(@, layer.cleaned_layer)]

\* composite_layers(run_dir, report_data), lines 14-46: base_img is None
\* when nothing was merged.
composite_layers(layers_info) ==
    MergeLayers(SortLayers(layers_info), Len(layers_info))

\* A region of the report with its background_box: "none" (not detected),
\* "file" (detected, the extracted image exists) or "nofile" (detected, the
\* extracted image is not on disk).
BoxedRegion(region, background_box) ==
    [region |-> region, background_box |-> background_box]

\* draw_background_boxes, lines 48-98: the ids of the regions whose box is
\* pasted, in report order.
RECURSIVE draw_background_boxes(_)
draw_background_boxes(boxed) ==
    IF Len(boxed) = 0 THEN <<>>
    ELSE LET before == draw_background_boxes(SubSeq(boxed, 1, Len(boxed) - 1))
             last == boxed[Len(boxed)]
         IN  IF last.background_box = "file" THEN Append(before, last.region.id)
             ELSE before

\* What a step adds to the log of the run.
Event(kind, id) == [kind |-> kind, id |-> id]
EventsOf(kind, ids) == [i \in 1..Len(ids) |-> Event(kind, ids[i])]

\* ------------------------------------------------ inputs of a run
\* The z-indices 0..n-1 in every order, for reports of up to MaxListed
\* layers; and in ascending and in descending order for ManyLayers layers.
RECURSIVE OrdersOf(_)
OrdersOf(S) ==
    IF S = {} THEN {<<>>}
    ELSE UNION {{Append(q, e) : q \in OrdersOf(S \ {e})} : e \in S}
ListedOrders ==
    UNION {OrdersOf(0..(n - 1)) : n \in 0..MaxListed}
        \cup {[i \in 1..ManyLayers |-> i - 1], [i \in 1..ManyLayers |-> ManyLayers - i]}

\* The reports of a listed order: every cleaned file on disk and readable,
\* or one of the first MaxListed files missing or corrupt.
LayerReports(zs) ==
    {[i \in 1..Len(zs) |-> LayerEntry(zs[i], "ok")]}
        \cup {[i \in 1..Len(zs) |-> LayerEntry(zs[i], IF i = bad THEN file ELSE "ok")] :
                 bad \in 1..Min2(Len(zs), MaxListed), file \in {"missing", "corrupt"}}

\* The regions of a report: none, or up to two of the headings "SUMMER" and
\* "SALE" and the logo, the first of them with any background box.
RegionReports ==
    LET pool == {r \in RegionPool : r.id \in {1, 2, 9}}
    IN  {[i \in 1..Len(q) |-> BoxedRegion(q[i], IF i = 1 THEN box ELSE "none")] :
            q \in {q \in SeqsUpTo(pool, 2) : Distinct(q)},
            box \in {"none", "file", "nofile"}}

\* input_path is an image file, a run directory, or neither; the report has
\* the key "text_detection" or (a report without regions) lacks it; the
\* fonts load, or get_font_path raises for every line.
InitPipeline ==
    /\ prog = "pipeline" /\ pc = "stage1"
    /\ \E input \in {"image", "run_dir", "invalid"}, zs \in ListedOrders,
          regions_in \in RegionReports, keyed \in BOOLEAN, face \in Faces :
          /\ ~keyed => regions_in = <<>>
          /\ face.h_num = 1 /\ face.net \in {Served, NoKey}
          /\ \E layers \in LayerReports(zs) :
                pipe = [input |-> input, layers |-> layers, regions |-> regions_in,
                        text_detection |-> keyed,
                        box_detection |-> "", outcome |-> ""]
          /\ report_data = [i \in 1..Len(regions_in) |-> regions_in[i].region]
          /\ font_face = [measurable |-> face.measurable, h_num |-> face.h_num,
                          h_den |-> face.h_den, adv_num |-> face.adv_num,
                          adv_den |-> face.adv_den, net |-> face.net]
          /\ StoredFonts(face)
    /\ canvas = [scale_den |-> 1]
    /\ text_lines = <<>> /\ draw_calls = <<>>
    /\ events = <<>>
    /\ InitLayeredIdle /\ InitMaskIdle /\ InitFontIdle /\ InitFilterIdle

\* A variant of the step order that renders the text before the boxes.
TextBeforeBoxes(stage) ==
    CASE stage = "composite_layers" -> "render_text_layer"
      [] stage = "render_text_layer" -> "draw_background_boxes"
      [] stage = "draw_background_boxes" -> "save"
      [] stage = "save" -> "done"

\* Lines 138-158: the step that follows a step of stage 3.
StageAfter(stage) ==
    CASE stage = "composite_layers" -> "draw_background_boxes"
      [] stage = "draw_background_boxes" -> "render_text_layer"
      [] stage = "render_text_layer" -> "save"
      [] stage = "save" -> "done"

PipelineFrame ==
    UNCHANGED <<prog, layered_vars, mask_vars, font_vars, asset_vars, procs, render_vars, filter_vars>>

\* Lines 54-80: stage 1.  run_pipeline_layered returns the run directory,
\* raises, or returns nothing.
Stage1 ==
    /\ prog = "pipeline" /\ pc = "stage1"
    /\ \/ /\ pipe.input = "image"
          /\ \E result \in {"run_dir", "raises", "None"} :
                IF result = "run_dir" THEN pc' = "stage2" /\ pipe' = pipe
                ELSE /\ pc' = "aborted"
                     /\ pipe' = [pipe EXCEPT !.outcome =
                                    IF result = "raises" THEN "stage 1 failed"
                                    ELSE "no run directory"]
       \/ /\ pipe.input = "run_dir"
          /\ pc' = "stage2" /\ pipe' = pipe
       \/ /\ pipe.input = "invalid"
          /\ pc' = "aborted"
          /\ pipe' = [pipe EXCEPT !.outcome = "invalid input"]
    /\ UNCHANGED events
    /\ PipelineFrame

\* Lines 88-91: stage 2.  A failure of the box detection is printed only.
Stage2 ==
    /\ prog = "pipeline" /\ pc = "stage2"
    /\ \E result \in {"done", "failed"} : pipe' = [pipe EXCEPT !.box_detection = result]
    /\ pc' = "load_report"
    /\ UNCHANGED events
    /\ PipelineFrame

\* Lines 100-136: the report is loaded, or there is none in the run
\* directory.  json.load of lines 113-114 is outside every try: a report
\* file that is empty or not JSON ends run_full_pipeline with an uncaught
\* JSONDecodeError.
LoadReport ==
    /\ prog = "pipeline" /\ pc = "load_report"
    /\ \E report_file \in {"json", "not json", "missing"} :
          CASE report_file = "json" -> pc' = "composite_layers" /\ pipe' = pipe
            [] report_file = "missing" ->
                  pc' = "aborted" /\ pipe' = [pipe EXCEPT !.outcome = "no report"]
            [] report_file = "not json" ->
                  pc' = "raised" /\ pipe' = [pipe EXCEPT !.outcome = "JSONDecodeError"]
    /\ UNCHANGED events
    /\ PipelineFrame

\* Lines 138-144 and 160-163: composite_layers, which sorts the list of the
\* report in place (line 23); an exception of it ends in the except branch,
\* a result of None in the return of line 144.
CompositeStage ==
    /\ prog = "pipeline" /\ pc = "composite_layers"
    /\ LET base_image == composite_layers(pipe.layers)
           sorted == [pipe EXCEPT !.layers = SortLayers(@)]
       IN  /\ events' = events \o EventsOf("layer", base_image.merged)
           /\ IF base_image.raised
              THEN pc' = "aborted" /\ pipe' = [sorted EXCEPT !.outcome = "exception"]
              ELSE IF base_image.merged = <<>>
              THEN pc' = "aborted" /\ pipe' = [sorted EXCEPT !.outcome = "no layers"]
              ELSE pc' = StageAfter(pc) /\ pipe' = sorted
    /\ PipelineFrame

\* Line 148: draw_background_boxes
BoxStage ==
    /\ prog = "pipeline" /\ pc = "draw_background_boxes"
    /\ events' = events \o EventsOf("box", draw_background_boxes(pipe.regions))
    /\ pc' = StageAfter(pc)
    /\ UNCHANGED pipe
    /\ PipelineFrame

\* Line 152: render_text_layer on a canvas of the original size, up to its
\* first wait inside get_font_path; every line drawn is logged.  Without
\* the key "text_detection" line 137 of it raises KeyError.
TextStage ==
    /\ prog = "pipeline" /\ pc = "render_text_layer"
    /\ IF pipe.text_detection
       THEN \E groups \in {ClusterGroups(report_data)} :
            \E run \in {RenderFrom(LineList(groups), 1, <<>>, loads)} :
                /\ RenderStep(groups, run)
                /\ events' = events \o [i \in 1..Len(run.draw_calls) |->
                                           Event("text", run.draw_calls[i].line[1])]
                /\ pc' = IF run.waiting = <<>> THEN StageAfter(pc) ELSE "get_font_path"
                /\ pipe' = pipe
       ELSE /\ pc' = "aborted" /\ pipe' = [pipe EXCEPT !.outcome = "exception"]
            /\ UNCHANGED <<events, asset_vars, procs, text_lines, draw_calls>>
    /\ UNCHANGED <<prog, layered_vars, mask_vars, font_vars,
                   report_data, canvas, font_face, filter_vars>>

\* Lines 254-326: a get_font_path call that waited has ended.  Its line is
\* sized and drawn, and the loops go on to the next wait or to their end;
\* in a run of run_full_pipeline every line drawn is logged.
LineFontReturned ==
    /\ prog \in {"render", "pipeline"} /\ pc = "get_font_path"
    /\ procs = <<>> /\ loads # <<>>
    /\ \E groups \in {ClusterGroups(report_data)} :
       \E lines \in {LineList(groups)}, k \in {loads[1].n} :
       \E run \in {RenderFrom(lines, k + 1,
                              draw_calls \o RenderLine(lines[k].role, lines[k].cluster,
                                                       Opened(font_face, loads[1].outcome),
                                                       canvas.scale_den),
                              loads)} :
       LET new == SubSeq(run.draw_calls, Len(draw_calls) + 1, Len(run.draw_calls))
       IN  /\ RenderStep(groups, run)
           /\ pc' = IF run.waiting # <<>> THEN "get_font_path"
                    ELSE IF prog = "pipeline" THEN StageAfter("render_text_layer")
                    ELSE "save"
           /\ events' = IF prog = "pipeline"
                        THEN events \o [i \in 1..Len(new) |-> Event("text", new[i].line[1])]
                        ELSE events
    /\ UNCHANGED <<prog, layered_vars, mask_vars, font_vars,
                   report_data, canvas, font_face, pipe, filter_vars>>

\* Lines 155-158: final_composed.png is written.
SaveStage ==
    /\ prog = "pipeline" /\ pc = "save"
    /\ events' = Append(events, Event("save", 0))
    /\ pc' = StageAfter(pc)
    /\ pipe' = [pipe EXCEPT !.outcome = "saved"]
    /\ PipelineFrame

NextPipeline ==
    \/ Stage1 \/ Stage2 \/ LoadReport \/ CompositeStage \/ BoxStage \/ TextStage
    \/ FontsApiReply \/ FontFileReply \/ LineFontReturned \/ SaveStage

SpecPipeline == InitPipeline /\ [][NextPipeline]_vars

\* ------------------------------------------------ properties of a run
\* The ids of the events of a kind, in the order they happened.
RECURSIVE IdsOf(_, _)
IdsOf(kind, log) ==
    IF Len(log) = 0 THEN <<>>
    ELSE LET before == IdsOf(kind, SubSeq(log, 1, Len(log) - 1))
         IN  IF log[Len(log)].kind = kind THEN Append(before, log[Len(log)].id) ELSE before

\* composite_layers has returned an image.
Composited ==
    /\ prog = "pipeline"
    /\ pc \in {"draw_background_boxes", "render_text_layer", "get_font_path", "save", "done"}

\* C21: composite_layers stacks the cleaned layers in ascending z-index
\* order, layer 0 at the bottom, for any number of layers and any order the
\* report lists them in: the layers merged are the layers whose cleaned
\* file is on disk, each below every layer of a larger z-index.
C21_StackedInZOrder ==
    Composited =>
        LET merged == IdsOf("layer", events)
        IN  /\ \A i, j \in 1..Len(merged) : i < j => merged[i] < merged[j]
            /\ {merged[i] : i \in 1..Len(merged)}
                  = {pipe.layers[i].original_layer :
                        i \in {i \in 1..Len(pipe.layers) : pipe.layers[i].file = "ok"}}

\* C21 witness: a report of ten or more layers, every cleaned file on disk,
\* has been composited with layer 10 below layer 2.
C21_Witness ==
    /\ Composited
    /\ Len(pipe.layers) >= 10
    /\ \A i \in 1..Len(pipe.layers) : pipe.layers[i].file = "ok"
    /\ LET merged == IdsOf("layer", events)
       IN  /\ Len(merged) = Len(pipe.layers)
           /\ \E i, j \in 1..Len(merged) : i < j /\ merged[i] = 10 /\ merged[j] = 2

\* The place of a kind of event in a run: layers, boxes, text, save.
StepRank(kind) ==
    CASE kind = "layer" -> 1 [] kind = "box" -> 2 [] kind = "text" -> 3 [] kind = "save" -> 4

\* C22: in every run all layers are composited first, then the background
\* boxes are pasted, then the text is drawn, and the final image is saved
\* last: no text draw precedes a box paste, no box paste precedes a layer,
\* nothing follows the save; and a run that has saved its image has merged
\* every layer whose file is readable, pasted every detected box whose
\* extracted image is on disk, and gone through the text rendering.
C22_LayersThenBoxesThenText ==
    prog = "pipeline" =>
        /\ \A i, j \in 1..Len(events) :
              i < j => /\ StepRank(events[i].kind) <= StepRank(events[j].kind)
                       /\ events[i].kind # "save"
        /\ (\E i \in 1..Len(events) : events[i].kind = "save") =>
              /\ pc = "done"
              /\ Len(IdsOf("layer", events))
                    = Cardinality({i \in 1..Len(pipe.layers) : pipe.layers[i].file = "ok"})
              /\ Len(IdsOf("layer", events)) >= 1
              /\ {IdsOf("box", events)[i] : i \in 1..Len(IdsOf("box", events))}
                    = {pipe.regions[i].region.id :
                          i \in {i \in 1..Len(pipe.regions) :
                                    pipe.regions[i].background_box = "file"}}
              /\ pipe.text_detection
              /\ \A i \in 1..Len(pipe.regions) :
                    (Grouped(pipe.regions[i].region)
                        /\ Strip(pipe.regions[i].region.gemini_analysis.text) # <<>>)
                    => \E k \in 1..Len(events) : events[k].kind = "text"
        /\ pc = "done" => events # <<>> /\ events[Len(events)].kind = "save"

\* C22 witness: a run has saved its image after merging two layers or more,
\* pasting a box and drawing a line of text.
C22_Witness ==
    /\ prog = "pipeline" /\ pc = "done"
    /\ Len(IdsOf("layer", events)) >= 2
    /\ Len(IdsOf("box", events)) >= 1
    /\ Len(IdsOf("text", events)) >= 1
    /\ events[Len(events)].kind = "save"

\* A run has ended; the inputs the spec calls an InputError; and the layers
\* composite_layers can use.
Ended == prog = "pipeline" /\ pc \in {"done", "aborted", "raised"}
Aborted == pc \in {"aborted", "raised"}
InputError == pipe.input = "invalid" \/ pipe.regions = <<>>
UsableLayers == {i \in 1..Len(pipe.layers) : pipe.layers[i].file = "ok"}

\* C23: a run is aborted (no final raster is written) exactly when its input
\* is an InputError (invalid reference image, empty region list), and then
\* before any stage has run, or when no layer is usable; every other
\* failure (box detection failed, one layer raster missing or corrupt, fonts
\* not loadable) is degraded and the final raster is written.
C23_AbortsOnlyOnInputErrorOrNoLayers ==
    Ended =>
        /\ Aborted <=> (InputError \/ UsableLayers = {})
        /\ InputError => Aborted /\ events = <<>> /\ pipe.box_detection = ""
        /\ pc = "done" <=> (events # <<>> /\ events[Len(events)].kind = "save")

\* C23 witness: a run on a valid input with a report, regions and three
\* layers, one of them corrupt and two usable, has ended without writing
\* the final raster.
C23_Witness ==
    /\ Ended
    /\ pipe.input # "invalid" /\ pipe.regions # <<>>
    /\ Len(pipe.layers) = 3
    /\ Cardinality(UsableLayers) = 2
    /\ \E i \in 1..Len(pipe.layers) : pipe.layers[i].file = "corrupt"
    /\ pipe.outcome = "exception"
    /\ pc = "aborted"
    /\ \A i \in 1..Len(events) : events[i].kind # "save"

\* ---------------------------------------------------------------- C24
\* The layer whose detections were scanned last, when it was written.
LastWritten ==
    IF prog = "layered" /\ decisions.layer # 0
    THEN {i \in {decisions.layer} : cleaned_files[i] # NoFile}
    ELSE {}

\* No detection of the layer was decided removable.
NothingRemovable(layer) ==
    RemovableCount(Decide(layer.text_regions, W, H)) = 0

\* C24: erasing in clean_layers changes only the alpha channel and only
\* where the dilated layer mask is 255.  Every written layer has four
\* channels and the colour channels of the file read; for the layer written
\* last, the alpha of every pixel where layer_mask is not 255 is the alpha
\* read (opaque for a file read with three channels); and a layer with no
\* removable detection is written as read.
C24_EraseOnlyMaskedAlpha ==
    prog = "layered" =>
        /\ \A i \in 1..Len(cleaned_files) :
              cleaned_files[i] # NoFile =>
                  LET before == layer_paths[i].image
                      after == cleaned_files[i]
                  IN  /\ \A p \in Pixels :
                            /\ Len(after[p]) = 4
                            /\ \A c \in 1..3 : after[p][c] = before[p][c]
                      /\ NothingRemovable(layer_paths[i]) =>
                            after = OriginalBGRA(layer_paths[i])
        /\ \A i \in LastWritten :
              LET before == OriginalBGRA(layer_paths[i])
              IN  \A p \in Pixels :
                      cleaned_files[i][p][4] =
                          IF layer_mask[p] = 255 /\ ~NothingRemovable(layer_paths[i])
                          THEN 0 ELSE before[p][4]

\* A layer read with three channels was erased: some pixel under the dilated
\* mask lost its alpha, some pixel outside it kept it, and an earlier layer
\* with no removable detection was written too.
C24_Witness ==
    /\ prog = "layered"
    /\ \E i \in LastWritten :
          /\ Len(layer_paths[i].image[<<0, 0>>]) = 3
          /\ \E p, q \in Pixels :
                /\ layer_mask[p] = 255 /\ cleaned_files[i][p][4] = 0
                /\ layer_mask_pre[p] = 0
                /\ layer_mask[q] = 0 /\ cleaned_files[i][q][4] = 255
          /\ \E j \in 1..(i - 1) :
                /\ cleaned_files[j] # NoFile
                /\ NothingRemovable(layer_paths[j])

\* ---------------------------------------------------------------- C25
\* C25 (as claimed): one get_font_path call makes at most one catalog
\* refresh attempt, whether the catalog file is missing at entry, the family
\* is missing from the catalog, or the call re-enters itself for Roboto.
C25_AtMostOneRefresh == Loaded => Load.refreshes <= 1

\* A call that found no catalog file refreshed at line 55, read the new
\* catalog, missed the family in it and refreshed again at line 72.
C25_Witness ==
    /\ Loaded
    /\ ~Load.cache_before.present
    /\ Load.net.api_key /\ Load.net.reply # 0
    /\ ~HasFamily(RemoteCatalogs[Load.net.reply], Load.font_name)
    /\ Load.refreshes = 2
    /\ Load.requests = 2

\* ---------------------------------------------------------------- C27
\* C27 (as claimed): every get_font_path call ends by returning a path or by
\* raising one of its own errors; the calls it makes for Roboto do not nest
\* without end.
C27_FallbackNestingEnds ==
    Loaded => Load.outcome.kind \in {"path", "ValueError", "JSONDecodeError",
                                     "RequestException"}

\* A call whose catalog lists Roboto with no upright weight within 200 of
\* the fallback weight, with no bundled Roboto file: each nested call finds
\* the files of its caller and nests again.
C27_Witness ==
    /\ Loaded
    /\ bundled_fonts = {}
    /\ Load.outcome.kind = "RecursionError"
    /\ ReadCatalog
    /\ HasFamily(CatalogNow, "Roboto")
    /\ LET weights == UprightWeights(FontInfo(CatalogNow, "Roboto").files)
           target == IF Load.font_weight >= 600 THEN 700 ELSE 400
       IN  \A i \in 1..Len(weights) : Abs(weights[i] - target) > 200

\* ---------------------------------------------------------------- C26
\* The weights among which the answering step of a call chose the weight of
\* the family it returned: the variants as the category scan reads them
\* (step 7), else what get_available_weights offers.
ChosenAmong(call) ==
    IF ChainStep(call) = 7
    THEN Range(CategoryScanWeights(CacheEntry(call.result[1], call.snapshot).files))
    ELSE Offered(call.result[1], call)

\* C26 (as claimed): whenever two weights of the returned family are equally
\* distant from the target, the lower one is returned, at every step of the
\* chain and whatever the order of the family's variants in the catalog.
C26_TieGoesToLowerWeight ==
    \A i \in 1..Len(calls) :
        LET t == TargetOf(calls[i])
            weight == calls[i].result[2]
        IN  ~\E v \in ChosenAmong(calls[i]) :
                v < weight /\ Abs(v - t) = Abs(weight - t)

\* Two calls with the catalog that lists Oswald as "600", "regular" and the
\* target 500: a request for Oswald itself is answered with 400, and a
\* request for a family of Oswald's category with nothing within 100 is
\* answered by the category scan with Oswald at 600.
C26_Witness ==
    /\ prog = "resolve"
    /\ \E i \in 1..Len(calls) :
          /\ TargetOf(calls[i]) = 500
          /\ ChainStep(calls[i]) = 7
          /\ calls[i].result = <<"Oswald", 600>>
          /\ {400, 600} \subseteq ChosenAmong(calls[i])
          /\ LET got == get_available_weights("Oswald", Memory(calls[i].snapshot))
             IN  find_closest_weight(500, ListAt(got.memory, got.list)) = 400

\* =====================================================================
\* run_pipeline_pro.py, then rendering/render_from_json_pillow.py: one
\* region's font is normalized against the catalog, and the renderer asks
\* the loader for the normalized family and weight
\* =====================================================================

\* The content of google_fonts_full_cache.json, read by both.
AssetCatalogs == {CatalogA, CatalogB, CatalogC}

InitAssets ==
    /\ prog = "assets" /\ pc = "normalize"
    /\ \E fonts_cache \in AssetCatalogs :
          /\ catalogs = <<fonts_cache>>
          /\ cache_file = [present |-> TRUE, text |-> JsonDump(fonts_cache)]
    /\ limited_fonts = LIMITED_WEIGHT_FONTS
    /\ calls = <<>>
    /\ font_dir = {}
    /\ bundled_fonts \in {{}, {400, 700}}
    /\ resolved = {} /\ loads = <<>> /\ procs = <<>>
    /\ InitLayeredIdle /\ InitMaskIdle /\ InitRenderIdle /\ InitRunIdle /\ InitFilterIdle

\* Lines 200-222 of run_pipeline_pro.py: text_content of one region.
NormalizeForRender ==
    /\ prog = "assets" /\ pc = "normalize"
    /\ \E req \in {r \in RegionRequests : r.cache = 1} :
       \E returned \in {normalize_font_and_weight(req.primary_font, req.fallback_font,
                             req.weight_input, Memory(catalogs[1]))} :
          /\ calls' = <<[primary_font |-> req.primary_font,
                         fallback_font |-> req.fallback_font,
                         weight_input |-> req.weight_input, cache |-> 1,
                         snapshot |-> catalogs[1],
                         result |-> returned.value, lists |-> Len(returned.memory.made)]>>
          /\ limited_fonts' = returned.memory.limited
          /\ catalogs' = [catalogs EXCEPT ![1] = returned.memory.fonts_cache]
    /\ pc' = "load"
    /\ UNCHANGED <<prog, layered_vars, mask_vars, rest_vars>>

\* Lines 106-113 of render_from_json_pillow.py:
\* get_font_path(tc["normalized_font"], tc["normalized_weight"])
LoadNormalized ==
    /\ prog = "assets" /\ pc = "load"
    /\ \E net \in Networks :
          /\ net.reply = 0 /\ net.download_ok
          /\ Began(calls[1].result[1], calls[1].result[2], net)
    /\ pc' = "get_font_path"
    /\ UNCHANGED <<prog, layered_vars, mask_vars, font_vars, bundled_fonts,
                   render_vars, run_vars, filter_vars>>

NextAssets == NormalizeForRender \/ LoadNormalized \/ FontsApiReply \/ FontFileReply
SpecAssets == InitAssets /\ [][NextAssets]_vars

\* ---------------------------------------------------------------- C28
\* The region's normalized family is one the catalog lists, and the loader
\* was asked for it with a network that serves the catalog's files.
NormalizedLoaded ==
    /\ prog = "assets" /\ pc = "get_font_path" /\ Loaded
    /\ InCache(calls[1].result[1], calls[1].snapshot)
    /\ Load.net.download_ok

\* C28 (as claimed): the family and weight that normalize_font_and_weight
\* returns for a catalogued family are loaded by get_font_path as exactly
\* that family and weight: the file the call returns holds that family's
\* variant of that weight, not a nearer weight and not Roboto.
C28_NormalizedIsLoadedAsIs ==
    NormalizedLoaded =>
        /\ Load.outcome.kind = "path"
        /\ Delivered = [family |-> calls[1].result[1], weight |-> calls[1].result[2]]

\* The normalizer answered with a weight that the family has only as an
\* italic variant ("700italic"); the loader found no upright weight within
\* 200 and turned to Roboto.
C28_Witness ==
    /\ NormalizedLoaded
    /\ LET files == CacheEntry(calls[1].result[1], calls[1].snapshot).files
           weight == calls[1].result[2]
       IN  /\ \E i \in 1..Len(files) : files[i] = Str(weight) \o V_italic
           /\ ~\E i \in 1..Len(files) : files[i] = VariantOf(weight)
           /\ \A i \in 1..Len(UprightWeights(files)) :
                 Abs(UprightWeights(files)[i] - weight) > 200
    /\ \/ Load.outcome.kind # "path"
       \/ Delivered.family = "Roboto" /\ calls[1].result[1] # "Roboto"

\* ---------------------------------------------------------------- C29
\* C29 (as claimed): a line whose font was loaded and measured is drawn in
\* that font at an integer size of at least 1; the proportional downscale
\* of lines 280-283 never yields 0.
C29_DrawnSizeAtLeastOne ==
    Rendered =>
        \A k \in Sized :
            font_face.measurable =>
                /\ draw_calls[k].font.kind = "truetype"
                /\ draw_calls[k].font.size >= 1

\* A line fitted by height at a size of 1 or more and measured wider than
\* its limit by more than that factor: int(font_size * scale_factor) is 0,
\* ImageFont.truetype refuses the size and the line is drawn in the default
\* bitmap font.
C29_Witness ==
    /\ Rendered
    /\ font_face.measurable
    /\ \E k \in 1..Len(draw_calls) :
          LET d == draw_calls[k]
          IN  /\ d.loaded
              /\ d.font.kind = "default"
              /\ d.font.fit >= 1
              /\ ~WithinLimit(d, d.font.text_w)
              /\ d.role \notin {"heading", "hero_text"}
              /\ d.font.fit * (d.box.max_x - d.box.min_x)
                    < d.font.text_w * canvas.scale_den

\* =====================================================================
\* pipeline_v2/filter_text_regions_after_inpaint.py
\* =====================================================================

\* A ratio white / total, kept as the two counts; 0.0 is 0 / 1.
Ratio(white, total) == [white |-> white, total |-> total]

\* Lines 40-47: x and y are clamped first, and x2, y2 are measured from the
\* clamped values (mask.shape is (H, W)).
clamped(bbox) ==
    LET x == Max2(0, bbox.x)
        y == Max2(0, bbox.y)
    IN  [x |-> x, y |-> y,
         x2 |-> Min2(W, x + bbox.width), y2 |-> Min2(H, y + bbox.height)]

\* calculate_mask_overlap(bbox, mask), lines 29-63
calculate_mask_overlap(bbox, mask) ==
    LET c == clamped(bbox)
        mask_region == {p \in Pixels : /\ c.x <= p[1] /\ p[1] < c.x2
                                       /\ c.y <= p[2] /\ p[2] < c.y2}
        white_pixels == Cardinality({p \in mask_region : mask[p] > 127})
        total_pixels == Cardinality(mask_region)
    IN  IF c.x2 <= c.x \/ c.y2 <= c.y THEN Ratio(0, 1)
        ELSE IF total_pixels = 0 THEN Ratio(0, 1)
        ELSE Ratio(white_pixels, total_pixels)

\* Line 123: overlap >= overlap_threshold, the threshold being the decimal
\* fraction given on the command line (0.20 by default).
AtLeast(overlap, threshold) ==
    overlap.white * threshold.total >= threshold.white * overlap.total

\* text_mask.png as the inpainting step left it: a white band at the left
\* edge with a grey fringe (128 and 127), or a white block off the edge.
BandMask ==
    [p \in Pixels |-> IF p[1] < 2 THEN 255 ELSE IF p[1] < 4 THEN 128
                      ELSE IF p[1] < 5 THEN 127 ELSE 0]
BlockMask ==
    [p \in Pixels |-> IF p[1] >= 3 /\ p[1] < 8 /\ p[2] >= 2 /\ p[2] < 8 THEN 255 ELSE 0]
MaskFiles ==
    {[exists |-> FALSE, readable |-> FALSE, raster |-> ZeroMask],
     [exists |-> TRUE, readable |-> FALSE, raster |-> ZeroMask],
     [exists |-> TRUE, readable |-> TRUE, raster |-> BandMask],
     [exists |-> TRUE, readable |-> TRUE, raster |-> BlockMask]}

\* The bboxes of the regions: inside the image, across each edge, and
\* wholly outside it.
FilterBoxes ==
    [x : {-6, -3, 0, 3, 21}, y : {-2, 0, 20}, width : {0, 3, 5}, height : {3, 6}]

Thresholds == {Ratio(1, 5), Ratio(1, 2)}

InitFilter ==
    /\ prog = "filter" /\ pc = "filter_regions"
    /\ filter_dir \in [json : {"missing", "not json", "list", "object"}, mask : MaskFiles,
                       overlap_threshold : Thresholds]
    /\ original_regions = <<>> /\ kept_regions = <<>> /\ dropped_regions = <<>>
    /\ overlaps = <<>> /\ editable_json = NoFile
    /\ InitLayeredIdle /\ InitMaskIdle /\ InitFontIdle /\ InitAssetIdle /\ procs = <<>>
    /\ InitRenderIdle /\ InitRunIdle

FilterFrame ==
    UNCHANGED <<prog, layered_vars, mask_vars, font_vars, asset_vars, procs, render_vars,
                run_vars, filter_dir>>

\* Lines 77-113: the inputs are validated and read.  Both files are looked
\* for first; json.load of lines 96-97 is outside every try, so a file that
\* is empty or not JSON raises JSONDecodeError; then the mask is read; then
\* data.get of line 111 raises AttributeError for a JSON list.
FilterOpen ==
    /\ prog = "filter" /\ pc = "filter_regions"
    /\ pc' = IF filter_dir.json = "missing" \/ ~filter_dir.mask.exists THEN "returned"
             ELSE IF filter_dir.json = "not json" THEN "raised JSONDecodeError"
             ELSE IF ~filter_dir.mask.readable THEN "returned"
             ELSE IF filter_dir.json = "list" THEN "raised AttributeError"
             ELSE "loop"
    /\ UNCHANGED <<original_regions, kept_regions, dropped_regions, overlaps, editable_json>>
    /\ FilterFrame

\* Lines 115-132: one region of data["regions"]; a region without the key
\* "bbox" gets {} and line 40 raises KeyError.
FilterRegion ==
    /\ prog = "filter" /\ pc = "loop"
    /\ Len(original_regions) < MaxRegions
    /\ \/ \E bbox \in FilterBoxes :
             LET region == [id |-> Len(original_regions) + 1, bbox |-> bbox]
                 overlap == calculate_mask_overlap(bbox, filter_dir.mask.raster)
             IN  /\ original_regions' = Append(original_regions, region)
                 /\ overlaps' = Append(overlaps, overlap)
                 /\ IF AtLeast(overlap, filter_dir.overlap_threshold)
                    THEN /\ kept_regions' = Append(kept_regions, region)
                         /\ UNCHANGED dropped_regions
                    ELSE /\ dropped_regions' = Append(dropped_regions, region)
                         /\ UNCHANGED kept_regions
                 /\ UNCHANGED pc
       \/ /\ pc' = "raised KeyError"
          /\ UNCHANGED <<original_regions, overlaps, kept_regions, dropped_regions>>
    /\ UNCHANGED editable_json
    /\ FilterFrame

\* Lines 138-156: the list is exhausted; final_result_editable.json.
FilterSave ==
    /\ prog = "filter" /\ pc = "loop"
    /\ editable_json' =
          [regions |-> kept_regions,
           filtering |-> [overlap_threshold |-> filter_dir.overlap_threshold,
                          original_region_count |-> Len(original_regions),
                          kept_region_count |-> Len(kept_regions),
                          dropped_region_count |-> Len(dropped_regions),
                          dropped |-> [i \in 1..Len(dropped_regions) |->
                                          dropped_regions[i].id]]]
    /\ pc' = "done"
    /\ UNCHANGED <<original_regions, kept_regions, dropped_regions, overlaps>>
    /\ FilterFrame

\* =====================================================================
\* archive/filter_by_reduction.py: the other writer of
\* final_result_editable.json
\* =====================================================================

\* calculate_iou(box1, box2), lines 25-61: a float, intersection / union.
calculate_iou(box1, box2) ==
    LET xi1 == Max2(box1.x, box2.x)
        yi1 == Max2(box1.y, box2.y)
        xi2 == Min2(box1.x + box1.width, box2.x + box2.width)
        yi2 == Min2(box1.y + box1.height, box2.y + box2.height)
    IN  IF xi2 <= xi1 \/ yi2 <= yi1 THEN FloatZero
        ELSE IF box1.width * box1.height + box2.width * box2.height
                    - (xi2 - xi1) * (yi2 - yi1) <= 0 THEN FloatZero
        ELSE FloatDiv((xi2 - xi1) * (yi2 - yi1),
                      box1.width * box1.height + box2.width * box2.height
                          - (xi2 - xi1) * (yi2 - yi1))

\* Lines 125-131: the report's dimensions, by default the size of
\* inpainted.png, over the size of inpainted.png.
ScaleFactor(dir, axis) ==
    FloatDiv(IF dir.dimensions.present THEN dir.dimensions[axis] ELSE dir.inpainted[axis],
             dir.inpainted[axis])

\* Lines 142-151: the detector's bboxes in the coordinates of the report,
\* int(bbox[...] * scale).
ScaledBbox(bbox, scale_x, scale_y) ==
    [x |-> FloatInt(FloatMul(FloatOf(bbox.x), scale_x)),
     y |-> FloatInt(FloatMul(FloatOf(bbox.y), scale_y)),
     width |-> FloatInt(FloatMul(FloatOf(bbox.width), scale_x)),
     height |-> FloatInt(FloatMul(FloatOf(bbox.height), scale_y))]
RedetectedBboxes(dir) ==
    [k \in 1..Len(dir.redetected_regions) |->
        ScaledBbox(dir.redetected_regions[k], ScaleFactor(dir, "width"),
                   ScaleFactor(dir, "height"))]

\* Lines 165-168: the largest IoU with a redetected bbox, 0.0 without one.
RECURSIVE MaxIou(_, _, _)
MaxIou(original_bbox, redetected_bboxes, k) ==
    IF k = 0 THEN FloatZero
    ELSE FloatMax(MaxIou(original_bbox, redetected_bboxes, k - 1),
                  calculate_iou(original_bbox, redetected_bboxes[k]))

\* Line 170: max_iou >= iou_threshold, the threshold being the float of the
\* decimal fraction given on the command line (0.3 by default).
StillDetected(max_iou, iou_threshold) ==
    FloatLeq(FloatDiv(iou_threshold.white, iou_threshold.total), max_iou)

\* What CRAFT finds on inpainted.png: nothing, a text that was left in
\* place, a box that touches one, or two boxes.
RedetectBoxes ==
    {BBox(3, 0, 5, 6), BBox(21, 20, 3, 3), BBox(4, 0, 12, 6), BBox(2, 1, 5, 6)}
Redetections ==
    {<<>>, <<BBox(3, 0, 5, 6)>>, <<BBox(6, 0, 10, 12)>>,
     <<BBox(1, 0, 2, 3), BBox(10, 10, 2, 1)>>}
IouThresholds == {Ratio(3, 10), Ratio(1, 2)}
ImageSizes ==
    {[present |-> FALSE, width |-> 0, height |-> 0],
     [present |-> TRUE, width |-> W, height |-> H],
     [present |-> TRUE, width |-> 2 * W, height |-> 2 * H]}

InitRedetect ==
    /\ prog = "redetect" /\ pc = "filter_by_redetection"
    /\ filter_dir \in [json : {"missing", "not json", "list", "object"},
                       inpainted : ImageSizes, dimensions : ImageSizes,
                       redetected_regions : Redetections,
                       iou_threshold : IouThresholds]
    /\ filter_dir.json # "object" =>
          /\ ~filter_dir.dimensions.present /\ filter_dir.redetected_regions = <<>>
          /\ filter_dir.iou_threshold = Ratio(3, 10)
    /\ ~filter_dir.inpainted.present => filter_dir.redetected_regions = <<>>
    /\ original_regions = <<>> /\ kept_regions = <<>> /\ dropped_regions = <<>>
    /\ overlaps = <<>> /\ editable_json = NoFile
    /\ InitLayeredIdle /\ InitMaskIdle /\ InitFontIdle /\ InitAssetIdle /\ procs = <<>>
    /\ InitRenderIdle /\ InitRunIdle

\* Lines 78-139: the inputs are validated and read.  json.load of lines
\* 98-99 is outside every try; the detector runs on inpainted.png; then
\* data.get of line 125 raises AttributeError for a JSON list.
RedetectOpen ==
    /\ prog = "redetect" /\ pc = "filter_by_redetection"
    /\ pc' = IF filter_dir.json = "missing" \/ ~filter_dir.inpainted.present
             THEN "returned"
             ELSE IF filter_dir.json = "not json" THEN "raised JSONDecodeError"
             ELSE IF filter_dir.json = "list" THEN "raised AttributeError"
             ELSE "loop"
    /\ UNCHANGED <<original_regions, kept_regions, dropped_regions, overlaps, editable_json>>
    /\ FilterFrame

\* Lines 159-179: one region of data["regions"]: dropped if a redetected
\* bbox still overlaps it, kept otherwise.  A region without the key "bbox"
\* gets {} and line 36 raises KeyError when there is a redetected bbox.
RedetectRegion ==
    /\ prog = "redetect" /\ pc = "loop"
    /\ Len(original_regions) < MaxRegions
    /\ \/ \E bbox \in RedetectBoxes :
             \E max_iou \in {MaxIou(bbox, RedetectedBboxes(filter_dir),
                                    Len(filter_dir.redetected_regions))} :
                /\ original_regions' =
                      Append(original_regions,
                             [id |-> Len(original_regions) + 1, bbox |-> bbox])
                /\ overlaps' = Append(overlaps, max_iou)
                /\ IF StillDetected(max_iou, filter_dir.iou_threshold)
                   THEN /\ dropped_regions' =
                             Append(dropped_regions,
                                    [id |-> Len(original_regions) + 1, bbox |-> bbox])
                        /\ UNCHANGED kept_regions
                   ELSE /\ kept_regions' =
                             Append(kept_regions,
                                    [id |-> Len(original_regions) + 1, bbox |-> bbox])
                        /\ UNCHANGED dropped_regions
                /\ UNCHANGED pc
       \/ /\ filter_dir.redetected_regions # <<>>
          /\ pc' = "raised KeyError"
          /\ UNCHANGED <<original_regions, overlaps, kept_regions, dropped_regions>>
    /\ UNCHANGED editable_json
    /\ FilterFrame

\* Lines 186-204: the list is exhausted; final_result_editable.json.
RedetectSave ==
    /\ prog = "redetect" /\ pc = "loop"
    /\ editable_json' =
          [regions |-> kept_regions,
           redetection_filtering |->
               [iou_threshold |-> filter_dir.iou_threshold,
                original_region_count |-> Len(original_regions),
                redetected_region_count |-> Len(filter_dir.redetected_regions),
                kept_region_count |-> Len(kept_regions),
                dropped_region_count |-> Len(dropped_regions),
                dropped_texts |-> [i \in 1..Len(dropped_regions) |->
                                      dropped_regions[i].id]]]
    /\ pc' = "done"
    /\ UNCHANGED <<original_regions, kept_regions, dropped_regions, overlaps>>
    /\ FilterFrame

NextFilter ==
    \/ FilterOpen \/ FilterRegion \/ FilterSave
    \/ RedetectOpen \/ RedetectRegion \/ RedetectSave
SpecFilter == (InitFilter \/ InitRedetect) /\ [][NextFilter]_vars

\* ---------------------------------------------------------------- C30
\* The pixels of the image inside the bbox [x, x+w) x [y, y+h).
Intersection(bbox) ==
    {p \in Pixels : /\ bbox.x <= p[1] /\ p[1] < bbox.x + bbox.width
                    /\ bbox.y <= p[2] /\ p[2] < bbox.y + bbox.height}
WhiteIn(S) == Cardinality({p \in S : filter_dir.mask.raster[p] > 127})

\* The overlap is the fraction of white pixels of the intersection, 0 when
\* the intersection is empty.
ExactOverlap(i) ==
    LET inside == Intersection(original_regions[i].bbox)
    IN  IF inside = {} THEN overlaps[i].white = 0
        ELSE overlaps[i].white * Cardinality(inside) = WhiteIn(inside) * overlaps[i].total

\* The members of a list that the threshold keeps (or drops), in order.
RECURSIVE Select(_, _)
Select(k, keep) ==
    IF k = 0 THEN <<>>
    ELSE IF AtLeast(overlaps[k], filter_dir.overlap_threshold) = keep
    THEN Append(Select(k - 1, keep), original_regions[k])
    ELSE Select(k - 1, keep)

\* C30 (first part, holds): a region is kept iff its overlap is at least
\* the threshold; kept and dropped regions partition the regions read, each
\* in input order.
KeptIffAtLeastThreshold ==
    prog = "filter" =>
        /\ kept_regions = Select(Len(original_regions), TRUE)
        /\ dropped_regions = Select(Len(original_regions), FALSE)

\* C30 (as claimed): for every bbox, one with negative x or y included, the
\* overlap calculate_mask_overlap returns is the fraction of pixels above
\* 127 over exactly the intersection of the bbox with the image, and 0.0
\* when the intersection is empty; filter_regions keeps a region iff that
\* fraction is at least the threshold, so that kept and dropped regions
\* partition the input in input order.
C30_OverlapOverIntersection ==
    prog = "filter" =>
        /\ \A i \in 1..Len(original_regions) : ExactOverlap(i)
        /\ KeptIffAtLeastThreshold

\* A region whose bbox lies wholly left of the image (x = -6, width 5) was
\* given the overlap of the window [0, 5) and kept; a region across the
\* left edge was measured over a window wider than its intersection.
C30_Witness ==
    /\ prog = "filter" /\ pc = "done"
    /\ \E i, j \in 1..Len(original_regions) :
          /\ Intersection(original_regions[i].bbox) = {}
          /\ original_regions[i].bbox.x + original_regions[i].bbox.width < 0
          /\ overlaps[i].white > 0
          /\ original_regions[i] \in Range(editable_json.regions)
          /\ original_regions[j].bbox.x < 0
          /\ Intersection(original_regions[j].bbox) # {}
          /\ overlaps[j].total > Cardinality(Intersection(original_regions[j].bbox))

NextLayered ==
    \/ CleanLayerMissing
    \/ CleanLayerDetectionFailed
    \/ CleanLayerUnreadable
    \/ CleanLayer
    \/ CleanLayersReturn
    \/ CompositeLayers

SpecLayered == InitLayered /\ [][NextLayered]_vars

NextFonts == NormalizeFontAndWeight

\* The mask builders.
InitMask == InitRemovable \/ InitRefine

NextMask ==
    \/ CreateRemovableMask
    \/ RefineMaskNoDimensions
    \/ RefineMask

SpecMask == InitMask /\ [][NextMask]_vars

\* The font resolver, called repeatedly.
SpecFonts == InitFonts /\ [][NextFonts]_vars
NextResolve == NormalizeRegion
SpecResolve == InitResolve /\ [][NextResolve]_vars
NextLoader == GetFontPath \/ FontsApiReply \/ FontFileReply
SpecLoader == InitLoader /\ [][NextLoader]_vars
NextRefresh ==
    \/ Line54 \/ RequestCatalog \/ OpenForWriting \/ DumpChunk
    \/ Line63 \/ Line66 \/ Line73
SpecRefresh == InitRefresh /\ [][NextRefresh]_vars
NextRender == RenderTextLayer \/ FontsApiReply \/ FontFileReply \/ LineFontReturned
SpecRender == InitRender /\ [][NextRender]_vars

\* Every script that produces a mask.
Init == InitLayered \/ InitMask

Next == NextLayered \/ NextMask

Spec == Init /\ [][Next]_vars
====
